---- MODULE Spec2Model ----
(***************************************************************************)
(* Model of the AngularJS -> React migration backend.                      *)
(*                                                                         *)
(* Text is modelled as a sequence of tokens: the punctuation characters    *)
(* "." "/" "?" "#" "$" are tokens of their own, every other token is a     *)
(* word (a run of characters that no pattern of the program splits).       *)
(* Python's substring, prefix and suffix tests become tests on contiguous  *)
(* runs of tokens.                                                         *)
(***************************************************************************)
EXTENDS Naturals, Integers, Sequences, FiniteSets, TLC

(***************************************************************************)
(* Bounds of the model.                                                    *)
(***************************************************************************)
\* how many injected faults (raising reads, inference calls, writes, store
\* commits) one run may suffer
MaxFaults == 2

\* the store on its own: the largest row id and the last hour of the clock
MaxId == 2
MaxTime == 2

\* how many calls of the store run at once
MaxSessions == 2

\* the `hours` argument of cleanup_old_records, in hours
CleanupHours == {1}

(***************************************************************************)
(* Text helpers (str / os.path / pathlib as the program uses them).        *)
(***************************************************************************)
StartsWith(s, p) == Len(p) <= Len(s) /\ SubSeq(s, 1, Len(p)) = p

EndsWith(s, p) == Len(p) <= Len(s) /\ SubSeq(s, Len(s) - Len(p) + 1, Len(s)) = p

\* c in s
Contains(s, c) == \E i \in 0..(Len(s) - Len(c)) : SubSeq(s, i + 1, i + Len(c)) = c

\* s.rfind(t) + 1 : the last position of token t, 0 when absent
RFind(s, t) ==
  IF \E i \in 1..Len(s) : s[i] = t
  THEN CHOOSE i \in 1..Len(s) : s[i] = t /\ \A j \in (i + 1)..Len(s) : s[j] # t
  ELSE 0

\* s.find(t) + 1
Find(s, t) ==
  IF \E i \in 1..Len(s) : s[i] = t
  THEN CHOOSE i \in 1..Len(s) : s[i] = t /\ \A j \in 1..(i - 1) : s[j] # t
  ELSE 0

\* str.lower() on the words the model uses
LowerTok(t) ==
  CASE t = "Controller" -> "controller"
    [] t = "Service" -> "service"
    [] t = "Factory" -> "factory"
    [] t = "Provider" -> "provider"
    [] t = "View" -> "view"
    [] t = "Project" -> "project"
    [] OTHER -> t

Lower(s) == [i \in DOMAIN s |-> LowerTok(s[i])]

\* s.replace(sub, '') for a non-empty sub
RECURSIVE Remove(_, _)
Remove(s, sub) ==
  IF s = <<>> THEN <<>>
  ELSE IF StartsWith(s, sub) THEN Remove(SubSeq(s, Len(sub) + 1, Len(s)), sub)
  ELSE <<Head(s)>> \o Remove(Tail(s), sub)

\* Path(p).name, os.path.basename(p)
BaseName(p) == SubSeq(p, RFind(p, "/") + 1, Len(p))

\* os.path.dirname(p)
RECURSIVE RStripSlash(_)
RStripSlash(s) ==
  IF s # <<>> /\ s[Len(s)] = "/" THEN RStripSlash(SubSeq(s, 1, Len(s) - 1)) ELSE s

DirName(p) ==
  LET head == SubSeq(p, 1, RFind(p, "/"))
  IN IF head # <<>> /\ \E i \in 1..Len(head) : head[i] # "/"
     THEN RStripSlash(head) ELSE head

\* Path(p).suffix : from the last "." of the final component, when that "."
\* is neither its first nor its last character
Suffix(p) ==
  LET name == BaseName(p)
      i == RFind(name, ".")
  IN IF 1 < i /\ i < Len(name) THEN SubSeq(name, i, Len(name)) ELSE <<>>

\* Path(p).stem
Stem(p) ==
  LET name == BaseName(p)
      i == RFind(name, ".")
  IN IF 1 < i /\ i < Len(name) THEN SubSeq(name, 1, i - 1) ELSE name

\* p.split('.')[-1]
AfterLastDot(p) == SubSeq(p, RFind(p, ".") + 1, Len(p))

\* s.split(t)[0]
BeforeFirst(s, t) == IF Find(s, t) = 0 THEN s ELSE SubSeq(s, 1, Find(s, t) - 1)

\* the segments of a path: p.split('/')
RECURSIVE SplitSlash(_)
SplitSlash(p) ==
  IF Find(p, "/") = 0 THEN <<p>>
  ELSE <<SubSeq(p, 1, Find(p, "/") - 1)>> \o SplitSlash(SubSeq(p, Find(p, "/") + 1, Len(p)))

\* '/'.join(segments)
RECURSIVE JoinSlash(_)
JoinSlash(segs) ==
  IF segs = <<>> THEN <<>>
  ELSE IF Len(segs) = 1 THEN segs[1]
  ELSE segs[1] \o <<"/">> \o JoinSlash(Tail(segs))

\* os.path.join(a, b) for a relative b
PathJoin(a, b) ==
  IF StartsWith(b, <<"/">>) THEN b
  ELSE IF a = <<>> \/ EndsWith(a, <<"/">>) THEN a \o b
  ELSE a \o <<"/">> \o b

\* os.path.normpath(p) for a relative p: drops empty and "." segments and
\* folds "x/.." ; leading ".." segments are kept
RECURSIVE NormSegs(_, _)
NormSegs(segs, acc) ==
  IF segs = <<>> THEN acc
  ELSE LET s == Head(segs)
       IN IF s = <<>> \/ s = <<".">> THEN NormSegs(Tail(segs), acc)
          ELSE IF s = <<".", ".">> /\ acc # <<>> /\ acc[Len(acc)] # <<".", ".">>
               THEN NormSegs(Tail(segs), SubSeq(acc, 1, Len(acc) - 1))
          ELSE NormSegs(Tail(segs), Append(acc, s))

NormPath(p) ==
  LET segs == NormSegs(SplitSlash(p), <<>>)
  IN IF segs = <<>> THEN <<".">> ELSE JoinSlash(segs)

SeqRange(s) == {s[i] : i \in DOMAIN s}


(***************************************************************************)
(* Input fixtures: the source projects an upload can hold.  A file's       *)
(* content is the sequence of the statements the analyzer's patterns can   *)
(* match; [k |-> kind, arg |-> quoted literal, params |-> identifier      *)
(* list].                                                                  *)
(***************************************************************************)
Stmt(kind, a, ps) == [k |-> kind, arg |-> a, params |-> ps]

CtrlJs == <<"app", "/", "user", "Controller", ".", "js">>
ViewHtml == <<"app", "/", "user", ".", "html">>
SvcJs == <<"app", "/", "data", "Service", ".", "js">>
VendorJs == <<"node_modules", "/", "lib", ".", "js">>
LogoPng == <<"app", "/", "logo", ".", "png">>

DiskContent(rel) ==
  CASE rel = CtrlJs ->
         << Stmt("module", <<"app">>, <<>>),
            Stmt("controller", <<"User", "Ctrl">>, <<>>),
            Stmt("function", <<>>, << <<"$", "scope">>, <<"data">> >>),
            Stmt("require", <<".", "/", "data", "Service">>, <<>>),
            Stmt("comment", <<"change", "log">>, <<>>) >>
    [] rel = ViewHtml ->
         << Stmt("script", <<".", "/", "user", "Controller", ".", "js">>, <<>>),
            Stmt("ng_include", <<"partials", "/", "nav", ".", "html">>, <<>>) >>
    [] rel = SvcJs ->
         << Stmt("factory", <<"data">>, <<>>) >>
    [] OTHER -> <<>>

\* the number of characters of a statement's text: a line of code, or a
\* block comment of several lines
CharLen(stmt) == IF stmt.k = "comment" THEN 600 ELSE 40

\* the files below a project root, in the order glob('**/*') yields them
Projects ==
  { <<CtrlJs, ViewHtml>>,
    <<SvcJs, LogoPng, CtrlJs, VendorJs, ViewHtml>>,
    <<LogoPng>> }

ProjectIds == {"p1", "p2"}

\* UPLOAD_DIR/project_id
ProjectPath(project_id) == <<"/", "srv", "/", "uploads", "/", project_id>>

(***************************************************************************)
(* AngularProjectAnalyzer (services/project_analyser.py)                   *)
(***************************************************************************)
file_extensions ==
  { <<".", "js">>, <<".", "html">>, <<".", "css">>, <<".", "json">>, <<".", "md">> }

DenyParts == << <<"node_modules">>, <<"dist">>, <<"build">>, <<".", "git">> >>

\* the findall of one pattern: the literals of the statements of these kinds
RECURSIVE FindAll(_, _)
FindAll(content, kinds) ==
  IF content = <<>> THEN <<>>
  ELSE (IF Head(content).k \in kinds THEN <<Head(content).arg>> ELSE <<>>)
       \o FindAll(Tail(content), kinds)

\* _gather_files: the absolute paths kept, in glob order
RECURSIVE GatherFiles(_, _)
GatherFiles(project_path, tree) ==
  IF tree = <<>> THEN <<>>
  ELSE LET file_path == PathJoin(project_path, Head(tree))
           keep == /\ Suffix(file_path) \in file_extensions
                   /\ ~ \E i \in DOMAIN DenyParts : Contains(file_path, DenyParts[i])
       IN (IF keep THEN <<file_path>> ELSE <<>>) \o GatherFiles(project_path, Tail(tree))

\* file_path.relative_to(self.project_path)
RelativeTo(file_path, project_path) ==
  SubSeq(file_path, Len(project_path) + 2, Len(file_path))

\* the dictionary of empty lists; is_list tells the dictionaries from the
\* list the except branch of _extract_file_info stores
NoComponents ==
  [modules |-> {}, controllers |-> {}, services |-> {}, directives |-> {},
   components |-> {}, is_list |-> FALSE]

\* "angular_components": [] of the record of a file that could not be read
ComponentsList == [NoComponents EXCEPT !.is_list = TRUE]

\* _extract_angular_components
ExtractAngularComponents(content, file_type) ==
  IF file_type # <<"js">> THEN NoComponents
  ELSE [modules |-> SeqRange(FindAll(content, {"module"})),
        controllers |-> SeqRange(FindAll(content, {"controller"})),
        services |-> SeqRange(FindAll(content, {"factory", "service", "provider"})),
        directives |-> SeqRange(FindAll(content, {"directive"})),
        components |-> SeqRange(FindAll(content, {"component"})),
        is_list |-> FALSE]

NoError == "none"
ReadError == "read_error"
NoDescription == <<>>
ErrorProcessingFile == <<"Error", "processing", "file">>

\* _extract_file_info: read_ok is whether file_path.read_text() returns
ExtractFileInfo(file_path, project_path, read_ok) ==
  LET rel == RelativeTo(file_path, project_path)
      file_type == Tail(Suffix(file_path))
      content == DiskContent(rel)
  IN IF read_ok
     THEN [file_name |-> BaseName(file_path), relative_path |-> rel,
           file_type |-> file_type, size_bytes |-> Len(content),
           content |-> content,
           angular_components |-> ExtractAngularComponents(content, file_type),
           dependencies |-> {}, description |-> NoDescription, error |-> NoError]
     ELSE [file_name |-> BaseName(file_path), relative_path |-> rel,
           file_type |-> file_type, size_bytes |-> 0,
           content |-> <<>>,
           angular_components |-> ComponentsList,
           dependencies |-> {}, description |-> ErrorProcessingFile,
           error |-> ReadError]

ResolveExts == << <<".", "js">>, <<".", "html">>, <<".", "css">>, <<".", "json">> >>

\* file_info_results and the stored analysis: the records in insertion
\* order, keyed by relative_path
Keys(infos) == {infos[i].relative_path : i \in DOMAIN infos}

Lookup(infos, key) == infos[CHOOSE i \in DOMAIN infos : infos[i].relative_path = key]

\* no result (None; the callers test truthiness, so '' is the same)
NoPath == <<>>

\* mutant: the path is returned without looking it up in all_files
ResolvePath_Unchecked(import_path, current_file, all_files) ==
  LET with_ext == IF \E i \in DOMAIN ResolveExts : EndsWith(import_path, ResolveExts[i])
                  THEN import_path ELSE import_path \o <<".", "js">>
      stripped == BeforeFirst(BeforeFirst(with_ext, "?"), "#")
  IN IF StartsWith(stripped, <<".", "/">>) \/ StartsWith(stripped, <<".", ".", "/">>)
     THEN NormPath(PathJoin(DirName(current_file), stripped))
     ELSE stripped

\* mutant: the joined path is looked up without os.path.normpath
ResolvePath_NoNormalize(import_path, current_file, all_files) ==
  LET with_ext == IF \E i \in DOMAIN ResolveExts : EndsWith(import_path, ResolveExts[i])
                  THEN import_path ELSE import_path \o <<".", "js">>
      stripped == BeforeFirst(BeforeFirst(with_ext, "?"), "#")
      full_path == IF StartsWith(stripped, <<".", "/">>) \/ StartsWith(stripped, <<".", ".", "/">>)
                   THEN PathJoin(DirName(current_file), stripped)
                   ELSE stripped
      hits == {i \in DOMAIN ResolveExts : (full_path \o ResolveExts[i]) \in all_files}
  IN IF \/ StartsWith(stripped, <<"http:", "/", "/">>)
        \/ StartsWith(stripped, <<"https:", "/", "/">>)
        \/ StartsWith(stripped, <<"/">>)
     THEN NoPath
     ELSE IF full_path \in all_files THEN full_path
     ELSE IF hits # {}
          THEN full_path \o ResolveExts[CHOOSE i \in hits : \A j \in hits : i <= j]
     ELSE NoPath

\* _resolve_path: the known file an import path names, or NoPath
ResolvePath(import_path, current_file, all_files) ==
  LET with_ext == IF \E i \in DOMAIN ResolveExts : EndsWith(import_path, ResolveExts[i])
                  THEN import_path ELSE import_path \o <<".", "js">>
      stripped == BeforeFirst(BeforeFirst(with_ext, "?"), "#")
      current_dir == DirName(current_file)
      full_path == IF StartsWith(stripped, <<".", "/">>) \/ StartsWith(stripped, <<".", ".", "/">>)
                   THEN NormPath(PathJoin(current_dir, stripped))
                   ELSE stripped
      hits == {i \in DOMAIN ResolveExts : (full_path \o ResolveExts[i]) \in all_files}
  IN IF \/ StartsWith(stripped, <<"http:", "/", "/">>)
        \/ StartsWith(stripped, <<"https:", "/", "/">>)
        \/ StartsWith(stripped, <<"/">>)
     THEN NoPath
     ELSE IF full_path \in all_files THEN full_path
     ELSE IF hits # {}
          THEN full_path \o ResolveExts[CHOOSE i \in hits : \A j \in hits : i <= j]
     ELSE NoPath

ReservedNames == { <<"scope">>, <<"rootScope">>, <<"window">>, <<"document">> }

\* _extract_injections: the names injected by $inject arrays and function
\* parameter lists, without the $-prefixed and the reserved ones
ExtractInjections(content) ==
  LET lists == {content[i].params : i \in {j \in DOMAIN content :
                                             content[j].k \in {"inject", "function"}}}
      names == UNION {SeqRange(l) : l \in lists}
  IN {n \in names : n # <<>> /\ ~ StartsWith(n, <<"$">>) /\ n \notin ReservedNames}

\* _find_dependencies raises: the injection loop calls .get on the
\* angular_components of every other record, and a list has no .get
DependenciesRaise(content, file_path, infos) ==
  /\ AfterLastDot(file_path) = <<"js">>
  /\ ExtractInjections(content) # {}
  /\ \E i \in DOMAIN infos :
       /\ infos[i].relative_path # file_path
       /\ infos[i].angular_components.is_list

\* _find_dependencies; infos is file_info_results
FindDependencies(content, file_path, infos) ==
  LET file_type == AfterLastDot(file_path)
      all_files == Keys(infos)
      Resolved(refs) ==
        {ResolvePath(refs[i], file_path, all_files) : i \in DOMAIN refs} \ {NoPath}
  IN IF file_type = <<"js">>
     THEN Resolved(FindAll(content, {"require"}) \o FindAll(content, {"import"}))
          \cup {other \in all_files :
                  /\ other # file_path
                  /\ \E inj \in ExtractInjections(content) :
                       \/ inj \in Lookup(infos, other).angular_components.services
                       \/ inj \in Lookup(infos, other).angular_components.directives
                       \/ inj \in Lookup(infos, other).angular_components.components}
     ELSE IF file_type = <<"html">>
     THEN Resolved(FindAll(content, {"script"}) \o FindAll(content, {"link"})
                   \o FindAll(content, {"ng_include"}))
     ELSE {}

\* "Unable to generate description due to an error."
DescriptionError == <<"Unable", "to", "generate", "description", "due", "to", "an", "error">>

\* the replies the language model can give to a description prompt: a
\* sequence of sentences
DescriptionReplies ==
  { << <<"Renders", "the", "user", "page">> >>,
    << <<"Defines", "a", "data", "Service">>, <<"It", "is", "injected">>,
       <<"Third", "sentence">> >> }

RECURSIVE Flatten(_)
Flatten(ss) == IF ss = <<>> THEN <<>> ELSE Head(ss) \o Flatten(Tail(ss))

\* mutant: the except branch returns an empty description
GenerateFileDescription_NoMarker(outcome, reply) ==
  IF outcome = "raise" THEN NoDescription
  ELSE IF Len(reply) > 2 THEN Flatten(SubSeq(reply, 1, 2)) ELSE Flatten(reply)

\* _generate_file_description: outcome is "raise" when llm.predict raises,
\* else the reply is cut to its first two sentences; the except branch
\* returns the error text
GenerateFileDescription(outcome, reply) ==
  IF outcome = "raise" THEN DescriptionError
  ELSE IF Len(reply) > 2 THEN Flatten(SubSeq(reply, 1, 2)) ELSE Flatten(reply)


(***************************************************************************)
(* ReactMigrationStructureGenerator (services/target_structure_generator)  *)
(***************************************************************************)
\* a key a JSON object does not hold
Absent == "absent"

NoRouting == [structure |-> Absent, has_routes |-> FALSE, present |-> FALSE]

\* {"type": "react-router-dom", "routes": []}
DefaultRouting == [structure |-> Absent, has_routes |-> TRUE, present |-> TRUE]

\* the empty dictionary {}
EmptyStructure ==
  [project_id |-> Absent, components |-> <<>>, pages |-> <<>>, hooks |-> <<>>,
   services |-> <<>>, contexts |-> <<>>, routing |-> NoRouting,
   statistics |-> FALSE]

\* _init_migration_structure
InitMigrationStructure(project_id) ==
  [EmptyStructure EXCEPT !.project_id = project_id, !.routing = DefaultRouting]

RECURSIVE SelectPaths(_, _)
SelectPaths(infos, ext) ==
  IF infos = <<>> THEN <<>>
  ELSE (IF EndsWith(Head(infos).relative_path, ext) THEN <<Head(infos)>> ELSE <<>>)
       \o SelectPaths(Tail(infos), ext)

\* the views _identify_controller_view_pairs pairs with one controller file
PotentialViews(js_info, html_files) ==
  LET js_path == js_info.relative_path
      js_basename == Stem(js_path)
      by_deps == SelectSeq(html_files,
                   LAMBDA h : \/ js_path \in h.dependencies
                              \/ h.relative_path \in js_info.dependencies)
      by_name == SelectSeq(html_files,
                   LAMBDA h :
                     LET base_name == Stem(h.relative_path)
                     IN \/ Contains(base_name, Remove(js_basename, <<"Controller">>))
                        \/ Contains(js_basename, Remove(base_name, <<"View">>))
                        \/ Contains(js_basename, Remove(base_name, <<".", "view">>)))
  IN IF by_deps # <<>> THEN by_deps ELSE by_name

IsControllerFile(js_info) ==
  \/ Contains(Lower(js_info.relative_path), <<"controller">>)
  \/ \E dep \in js_info.dependencies : Contains(Lower(dep), <<"controller">>)

\* _identify_controller_view_pairs: the (controller, view) pairs in order
RECURSIVE PairsOf(_, _)
PairsOf(js_files, html_files) ==
  IF js_files = <<>> THEN <<>>
  ELSE LET js_info == Head(js_files)
           views == IF IsControllerFile(js_info)
                    THEN PotentialViews(js_info, html_files) ELSE <<>>
       IN [i \in DOMAIN views |-> <<js_info, views[i]>>]
          \o PairsOf(Tail(js_files), html_files)

IdentifyControllerViewPairs(analysis_data) ==
  PairsOf(SelectPaths(analysis_data, <<".", "js">>),
          SelectPaths(analysis_data, <<".", "html">>))

MentionsService(text) ==
  \/ Contains(Lower(text), <<"service">>)
  \/ Contains(Lower(text), <<"factory">>)
  \/ Contains(Lower(text), <<"provider">>)

\* mutant: only the path is searched for service, factory, provider
IdentifyServices_PathOnly(analysis_data) ==
  SelectSeq(SelectPaths(analysis_data, <<".", "js">>),
            LAMBDA info : MentionsService(info.relative_path))

\* _identify_services
IdentifyServices(analysis_data) ==
  SelectSeq(SelectPaths(analysis_data, <<".", "js">>),
            LAMBDA info : MentionsService(info.description)
                          \/ MentionsService(info.relative_path))

\* info.get('routing_info', ''): the analyzer's records carry no routing_info
RoutingInfo(info) == <<>>

PageIndicators ==
  {"page", "view", "screen", "dashboard", "home", "login", "detail"}

\* _is_likely_page
IsLikelyPage(controller_info, view_info) ==
  LET controller_routing == Lower(RoutingInfo(controller_info))
      view_routing == Lower(RoutingInfo(view_info))
      controller_name == Lower(controller_info.file_name)
      view_name == Lower(view_info.file_name)
  IN \/ Contains(controller_routing, <<"route">>)
     \/ Contains(controller_routing, <<"state">>)
     \/ Contains(view_routing, <<"ui-view">>)
     \/ Contains(view_routing, <<"ng-view">>)
     \/ ~ Contains(controller_routing, <<"not", "involved", "in", "routing">>)
     \/ \E ind \in PageIndicators :
          Contains(controller_name, <<ind>>) \/ Contains(view_name, <<ind>>)

(***************************************************************************)
(* A reply of the language model to a planning prompt.  outcome "raise":   *)
(* llm.predict raises.  Otherwise the text holds a ```json fence, a plain  *)
(* ``` fence or none, and `valid` says whether the text the code cuts out  *)
(* (the fenced part, else the whole reply) is a JSON document; `json` is   *)
(* the document.                                                           *)
(***************************************************************************)
Json(n, mtype, struct, routes) ==
  [name |-> n, migrationType |-> mtype, structure |-> struct, has_routes |-> routes]

LlmReply(o, f, v, j) == [outcome |-> o, fence |-> f, valid |-> v, json |-> j]

NoJson == Json(<<>>, Absent, Absent, FALSE)

RaisingReply == LlmReply("raise", "none", FALSE, NoJson)

\* a reply that holds no JSON document at all
GarbageReply == LlmReply("text", "none", FALSE, NoJson)

ComponentReplies ==
  { RaisingReply, GarbageReply,
    LlmReply("text", "json", TRUE, Json(<<"User", "Page">>, Absent, Absent, FALSE)),
    LlmReply("text", "none", TRUE, Json(<<"forms", "/", "Login">>, Absent, Absent, FALSE)) }

ServiceReplies ==
  { RaisingReply,
    LlmReply("text", "json", TRUE, Json(<<"use", "Data">>, "hook", Absent, FALSE)),
    LlmReply("text", "plain", TRUE, Json(<<"Data", "Context">>, "context", Absent, FALSE)),
    LlmReply("text", "none", TRUE, Json(<<"Data", "Api">>, "service", Absent, FALSE)) }

RoutingReplies ==
  { GarbageReply,
    LlmReply("text", "json", TRUE, Json(<<>>, Absent, "centralized", TRUE)),
    LlmReply("text", "none", TRUE, Json(<<>>, Absent, "distributed", TRUE)),
    LlmReply("text", "plain", TRUE, Json(<<>>, Absent, "centralized", FALSE)) }

\* the parsed structure, or this when nothing was produced (None)
NoStructure ==
  [name |-> <<>>, sourceFiles |-> <<>>, migrationType |-> Absent, made |-> FALSE]

\* json.loads of the text cut out of the reply raises JSONDecodeError
JsonDecodeFails(reply) == ~ reply.valid

\* what a planning call gave
ReplyMark(reply) ==
  IF reply.outcome = "raise" THEN "raise"
  ELSE IF JsonDecodeFails(reply) THEN "no_json" ELSE "ok"

\* mutant: a reply without JSON still yields a (nameless) component
GenerateComponentStructure_KeepsUnparsed(controller_info, view_info, reply) ==
  IF reply.outcome = "raise" THEN NoStructure
  ELSE [name |-> reply.json.name,
        sourceFiles |-> <<controller_info.relative_path, view_info.relative_path>>,
        migrationType |-> reply.json.migrationType, made |-> TRUE]

\* _generate_component_structure: None when the call raises or the reply
\* holds no JSON; else the parsed object with sourceFiles overwritten
GenerateComponentStructure(controller_info, view_info, reply) ==
  IF reply.outcome = "raise" THEN NoStructure
  ELSE IF JsonDecodeFails(reply) THEN NoStructure
  ELSE [name |-> reply.json.name,
        sourceFiles |-> <<controller_info.relative_path, view_info.relative_path>>,
        migrationType |-> reply.json.migrationType, made |-> TRUE]

\* _generate_service_structure
GenerateServiceStructure(service_info, reply) ==
  IF reply.outcome = "raise" THEN NoStructure
  ELSE IF JsonDecodeFails(reply) THEN NoStructure
  ELSE [name |-> reply.json.name,
        sourceFiles |-> <<service_info.relative_path>>,
        migrationType |-> reply.json.migrationType, made |-> TRUE]

\* _generate_routing_structure
GenerateRoutingStructure(reply) ==
  IF reply.outcome = "raise" THEN NoRouting
  ELSE IF JsonDecodeFails(reply) THEN NoRouting
  ELSE [structure |-> reply.json.structure, has_routes |-> reply.json.has_routes,
        present |-> TRUE]


(***************************************************************************)
(* ReactComponentGenerator (services/react_generator.py)                   *)
(***************************************************************************)
\* Path(f"output/{project_id}")
OutputDir(project_id) == <<"output", "/", project_id>>

\* the directory and every ancestor of it: what mkdir(parents=True,
\* exist_ok=True) leaves in existence
RECURSIVE WithParents(_)
WithParents(dir) ==
  IF dir = <<>> \/ DirName(dir) = dir THEN {dir} \ {<<>>}
  ELSE {dir} \cup WithParents(DirName(dir))

Mkdir(dirs, dir) == dirs \cup WithParents(dir)

GeneratedFolders ==
  << <<"components">>, <<"pages">>, <<"hooks">>, <<"services">>, <<"contexts">>,
     <<"utils">>, <<"routes">> >>

\* _create_directory_structure
RECURSIVE MkdirAll(_, _)
MkdirAll(dirs, list) ==
  IF list = <<>> THEN dirs ELSE MkdirAll(Mkdir(dirs, Head(list)), Tail(list))

CreateDirectoryStructure(dirs, output_dir) ==
  MkdirAll(dirs, <<output_dir>> \o [i \in DOMAIN GeneratedFolders |->
                                      PathJoin(output_dir, GeneratedFolders[i])])

\* a key of the analysis: source_path in self.analysis_data
MatchSource(source_path, analysis_data) ==
  IF source_path \in Keys(analysis_data) THEN source_path ELSE NoPath

\* mutant: the matched keys are collected in reverse order
RECURSIVE SourceContents_Reversed(_, _)
SourceContents_Reversed(source_files, analysis_data) ==
  IF source_files = <<>> THEN <<>>
  ELSE SourceContents_Reversed(Tail(source_files), analysis_data)
       \o (IF MatchSource(Head(source_files), analysis_data) # NoPath
           THEN <<MatchSource(Head(source_files), analysis_data)>> ELSE <<>>)

\* the source_contents loop of _generate_component_file (and of the hook,
\* service and context variants): the analysis keys whose content is used
RECURSIVE SourceContents(_, _)
SourceContents(source_files, analysis_data) ==
  IF source_files = <<>> THEN <<>>
  ELSE (IF MatchSource(Head(source_files), analysis_data) # NoPath
        THEN <<MatchSource(Head(source_files), analysis_data)>> ELSE <<>>)
       \o SourceContents(Tail(source_files), analysis_data)

\* source['content'][:500]
SnippetLimit == 500

\* content[:limit]: the statements that fit, and the one the cut falls in
\* as a "cut" statement
RECURSIVE Truncate(_, _)
Truncate(content, limit) ==
  IF content = <<>> \/ limit <= 0 THEN <<>>
  ELSE IF CharLen(Head(content)) <= limit
  THEN <<Head(content)>> \o Truncate(Tail(content), limit - CharLen(Head(content)))
  ELSE << [Head(content) EXCEPT !.k = "cut"] >>

\* f"File: {source['path']}\n{source['content'][:500]}..."
Snippet(path, content) == [path |-> path, content |-> Truncate(content, SnippetLimit)]

\* source_content_snippets of _generate_react_component (and of the hook,
\* service and context variants), from the keys of source_contents
SourceSnippets(keys, analysis_data) ==
  [i \in DOMAIN keys |-> Snippet(keys[i], Lookup(analysis_data, keys[i]).content)]

\* component_info.get("name", default)
AbsentName == <<Absent>>

NameOf(info, default) == IF info.name = AbsentName THEN default ELSE info.name

\* one file the walk produces: output_dir / folder / f"{name}.js"
Item(output_dir, kind, folder, file_name, sources, calls_llm) ==
  [kind |-> kind,
   path |-> PathJoin(PathJoin(output_dir, folder), file_name),
   sourceFiles |-> sources, llm |-> calls_llm]

ItemsOf(output_dir, list, kind, folder, default) ==
  [i \in DOMAIN list |->
     Item(output_dir, kind, folder, NameOf(list[i], default) \o <<".", "js">>,
          list[i].sourceFiles, TRUE)]

\* _generate_routing: nothing for an empty routing entry; AppRouter.js
\* only for the (default) centralized structure
RoutingItems(output_dir, routing) ==
  IF ~ routing.present THEN <<>>
  ELSE <<Item(output_dir, "routing", <<"routes">>, <<"index", ".", "js">>, <<>>, TRUE)>>
       \o (IF routing.structure \in {Absent, "centralized"}
           THEN <<Item(output_dir, "routing", <<"routes">>, <<"AppRouter", ".", "js">>,
                       <<>>, TRUE)>>
           ELSE <<>>)

\* _generate_project_component: Project.js from the model, index.js fixed
ProjectItems(output_dir) ==
  << Item(output_dir, "project", <<>>, <<"Project", ".", "js">>, <<>>, TRUE),
     Item(output_dir, "project", <<>>, <<"index", ".", "js">>, <<>>, FALSE) >>

\* mutant: the routing files are produced first
WalkItems_RoutingFirst(output_dir, md) ==
  RoutingItems(output_dir, md.routing)
  \o ItemsOf(output_dir, md.components, "component", <<"components">>, <<"UnnamedComponent">>)
  \o ItemsOf(output_dir, md.pages, "page", <<"pages">>, <<"UnnamedComponent">>)
  \o ItemsOf(output_dir, md.hooks, "hook", <<"hooks">>, <<"useUnnamedHook">>)
  \o ItemsOf(output_dir, md.services, "service", <<"services">>, <<"UnnamedService">>)
  \o ItemsOf(output_dir, md.contexts, "context", <<"contexts">>, <<"UnnamedContext">>)
  \o ProjectItems(output_dir)

\* generate_project: the files in the order the awaits produce them
WalkItems(output_dir, md) ==
  ItemsOf(output_dir, md.components, "component", <<"components">>, <<"UnnamedComponent">>)
  \o ItemsOf(output_dir, md.pages, "page", <<"pages">>, <<"UnnamedComponent">>)
  \o ItemsOf(output_dir, md.hooks, "hook", <<"hooks">>, <<"useUnnamedHook">>)
  \o ItemsOf(output_dir, md.services, "service", <<"services">>, <<"UnnamedService">>)
  \o ItemsOf(output_dir, md.contexts, "context", <<"contexts">>, <<"UnnamedContext">>)
  \o RoutingItems(output_dir, md.routing)
  \o ProjectItems(output_dir)

\* open(path, 'w') finds the directory of the file
CanOpen(dirs, path) == DirName(path) \in dirs

(***************************************************************************)
(* MigrationDBService (services/db_service.py).  A table is the sequence   *)
(* of its rows in primary-key order; query(...).first() is the first row   *)
(* that matches.                                                           *)
(***************************************************************************)
NoAnalysisRow == [id |-> 0, project_id |-> Absent, analysis_data |-> <<>>]

NoStructureRow ==
  [id |-> 0, project_id |-> Absent, structure_data |-> EmptyStructure,
   instructions |-> Absent]

Matching(table, project_id) == {i \in DOMAIN table : table[i].project_id = project_id}

\* db.query(Model).filter(Model.project_id == project_id).first()
FirstIndex(table, project_id) ==
  CHOOSE i \in Matching(table, project_id) : \A j \in Matching(table, project_id) : i <= j

FirstRow(table, project_id, none) ==
  IF Matching(table, project_id) = {} THEN none ELSE table[FirstIndex(table, project_id)]

NextId(table) ==
  IF table = <<>> THEN 1
  ELSE 1 + (CHOOSE m \in {table[i].id : i \in DOMAIN table} :
              \A i \in DOMAIN table : table[i].id <= m)

\* `if not instance`
IsNone(instance) == instance.id = 0

\* mutant: save_analysis does not look for the row of the project
SaveAnalysis_AlwaysInserts(table, project_id, analysis_data, commit_ok) ==
  IF project_id = "" \/ analysis_data = <<>> \/ ~ commit_ok
  THEN [table |-> table, instance |-> NoAnalysisRow]
  ELSE LET row == [id |-> NextId(table), project_id |-> project_id,
                   analysis_data |-> analysis_data]
       IN [table |-> Append(table, row), instance |-> row]

\* save_analysis: the table afterwards and the instance returned (None
\* when the inputs are invalid or the commit raises and is rolled back)
SaveAnalysis(table, project_id, analysis_data, commit_ok) ==
  IF project_id = "" \/ analysis_data = <<>> \/ ~ commit_ok
  THEN [table |-> table, instance |-> NoAnalysisRow]
  ELSE IF Matching(table, project_id) # {}
  THEN LET i == FirstIndex(table, project_id)
           t == [table EXCEPT ![i].analysis_data = analysis_data]
       IN [table |-> t, instance |-> t[i]]
  ELSE LET row == [id |-> NextId(table), project_id |-> project_id,
                   analysis_data |-> analysis_data]
       IN [table |-> Append(table, row), instance |-> row]

\* mutant: the structure is saved without looking for the analysis
AnalysisMissing_Unchecked(analyses, project_id) == FALSE

\* the "Verify analysis exists first" test of save_target_structure
AnalysisMissing(analyses, project_id) == Matching(analyses, project_id) = {}

\* mutant: the update branch stores the instructions argument as well
SaveTargetStructure_SetsInstructions(table, analyses, project_id, structure_data, instructions, commit_ok) ==
  IF project_id = "" \/ structure_data = EmptyStructure
  THEN [table |-> table, instance |-> NoStructureRow]
  ELSE IF AnalysisMissing(analyses, project_id)
  THEN [table |-> table, instance |-> NoStructureRow]
  ELSE IF ~ commit_ok
  THEN [table |-> table, instance |-> NoStructureRow]
  ELSE IF Matching(table, project_id) # {}
  THEN LET i == FirstIndex(table, project_id)
           t == [table EXCEPT ![i].structure_data = structure_data,
                             ![i].instructions = instructions]
       IN [table |-> t, instance |-> t[i]]
  ELSE LET row == [id |-> NextId(table), project_id |-> project_id,
                   structure_data |-> structure_data, instructions |-> instructions]
       IN [table |-> Append(table, row), instance |-> row]

\* save_target_structure
SaveTargetStructure(table, analyses, project_id, structure_data, instructions, commit_ok) ==
  IF project_id = "" \/ structure_data = EmptyStructure
  THEN [table |-> table, instance |-> NoStructureRow]
  ELSE IF AnalysisMissing(analyses, project_id)
  THEN [table |-> table, instance |-> NoStructureRow]
  ELSE IF ~ commit_ok
  THEN [table |-> table, instance |-> NoStructureRow]
  ELSE IF Matching(table, project_id) # {}
  THEN LET i == FirstIndex(table, project_id)
           t == [table EXCEPT ![i].structure_data = structure_data]
       IN [table |-> t, instance |-> t[i]]
  ELSE LET row == [id |-> NextId(table), project_id |-> project_id,
                   structure_data |-> structure_data, instructions |-> instructions]
       IN [table |-> Append(table, row), instance |-> row]

\* get_analysis(...)["analysis_data"], <<>> for None
GetAnalysis(table, project_id) == FirstRow(table, project_id, NoAnalysisRow).analysis_data

\* get_target_structure
GetTargetStructure(table, project_id) == FirstRow(table, project_id, NoStructureRow)

\* the updated_at column after a commit at time t that turned the table
\* `before` into `after`: default / onupdate = datetime.utcnow for a row
\* that was inserted or changed, the old value for a row left as it was
Stamped(stamps, before, after, t) ==
  [id \in {after[i].id : i \in DOMAIN after} |->
     IF \E i \in DOMAIN before : before[i].id = id /\ before[i] \in SeqRange(after)
     THEN stamps[id] ELSE t]


(***************************************************************************)
(* Requests.                                                               *)
(***************************************************************************)
Info(n, sources) == [name |-> n, sourceFiles |-> sources, migrationType |-> Absent,
                     made |-> TRUE]

\* the target structures a client can post to /migrate
TargetInputs ==
  { [EmptyStructure EXCEPT
       !.project_id = "p1",
       !.components = << Info(<<"Nav">>, <<ViewHtml>>),
                         Info(<<"Card">>, << <<"user", ".", "html">>, CtrlJs >>) >>],
    [EmptyStructure EXCEPT
       !.project_id = "p1",
       !.components = << Info(<<"forms", "/", "Login">>, <<CtrlJs>>) >>,
       !.hooks = << Info(AbsentName, <<>>) >>,
       !.routing = [structure |-> "distributed", has_routes |-> TRUE, present |-> TRUE]],
    EmptyStructure }

\* the instructions a client gives to generate_target_structure
Instructions == {"use hooks"}

\* what an earlier, fault-free generate_target_structure run for p1 left in
\* the store
PriorInfos ==
  LET project_path == ProjectPath("p1")
      files == GatherFiles(project_path, <<CtrlJs, ViewHtml>>)
      extracted == [i \in DOMAIN files |-> ExtractFileInfo(files[i], project_path, TRUE)]
  IN [i \in DOMAIN extracted |->
        [extracted[i] EXCEPT
           !.dependencies = FindDependencies(extracted[i].content,
                                             extracted[i].relative_path, extracted),
           !.description = <<"Renders", "the", "user", "page">>]]

PriorStructure ==
  [InitMigrationStructure("p1") EXCEPT
     !.pages = << [name |-> <<"User", "Page">>, sourceFiles |-> <<CtrlJs, ViewHtml>>,
                   migrationType |-> Absent, made |-> TRUE] >>,
     !.statistics = TRUE]

InitialStores ==
  { [analyses |-> <<>>, structures |-> <<>>],
    [analyses |-> << [id |-> 1, project_id |-> "p1", analysis_data |-> PriorInfos] >>,
     structures |-> << [id |-> 1, project_id |-> "p1", structure_data |-> PriorStructure,
                        instructions |-> "keep classes"] >>] }

(***************************************************************************)
(* State.                                                                  *)
(***************************************************************************)
VARIABLES
  pc,                  \* where the service method is
  op,                  \* the AnalysisService method that runs
  project_id,          \* its project_id argument
  tree,                \* the files below project_path
  instructions,        \* its instructions argument
  target_in,           \* the target_structure argument of migrate_from_target
  analysisTable,       \* rows of project_analysis
  structureTable,      \* rows of target_structure
  file_info_results,   \* analyze_project: the records, in order
  d_idx,               \* analyze_project: next record of the description loop
  described,           \* the inference calls issued by the description loop
  migration_structure, \* the planner's self.migration_structure
  pairs,               \* the planner's controller_view_pairs
  services,            \* the planner's services
  p_idx,               \* next pair / service of the planner's loop
  plan_calls,          \* inference calls issued by the planner
  plan_log,            \* what each of them gave: <<request, "ok"|"no_json"|"raise">>
  target_structure,    \* what the planner returned
  dirs,                \* directories that exist below the working directory
  walk,                \* generate_project: the files to produce, in order
  g_idx,               \* generate_project: the file being produced
  g_content,           \* whether its content has been generated
  g_sources,           \* the analysis keys its source_contents hold
  g_snippets,          \* the source snippets of its generation request
  written,             \* the files written (their walk entries), in order
  faults,              \* injected faults so far
  stageLog,            \* the stages of the run: <<stage, "start"|"ok"|"fail">>
  result,              \* "none", "success", "returned" or "raised"
  u_fn,                \* the helper applied on its own, "none" before
  u_args,              \* its arguments
  u_out,               \* what it returned
  updated_at,          \* the updated_at column: table -> (row id -> time)
  now,                 \* datetime.utcnow(), in hours
  sessions,            \* concurrent save calls: each session's call and position
  g_instructions,      \* the instructions handed to the generator
  route                \* a /zip or /github request: position, paths, files on disk

vars ==
  << pc, op, project_id, tree, instructions, target_in, analysisTable,
     structureTable, file_info_results, d_idx, described, migration_structure,
     pairs, services, p_idx, plan_calls, plan_log, target_structure, dirs, walk,
     g_idx, g_content, g_sources, g_snippets, written, faults, stageLog, result,
     u_fn, u_args, u_out, updated_at, now, sessions, g_instructions, route >>

unitVars == << u_fn, u_args, u_out >>

requestVars == << op, project_id, tree, instructions, target_in >>
storeVars == << analysisTable, structureTable, updated_at >>
callVars == << now, sessions, route >>
analyzeVars == << file_info_results, d_idx, described >>
planVars == << migration_structure, pairs, services, p_idx, plan_calls, plan_log,
              target_structure >>
genVars == << walk, g_idx, g_content, g_sources, g_snippets, written, g_instructions >>

Ops == {"migrate_project", "generate_target_structure", "migrate_from_target"}

\* no request: project_id, zip_path and temp_path are None, nothing on disk
NoRequest ==
  [ endpoint |-> "none", pc |-> "idle", project_id |-> "", zip_path |-> "",
    temp_path |-> "", fs |-> {}, error |-> "none", background |-> << >>,
    response |-> "none", sent |-> FALSE, cleanup_ran |-> FALSE, failing |-> {} ]

Init ==
  /\ pc = "start"
  /\ op \in Ops
  /\ project_id \in ProjectIds
  /\ \E store \in InitialStores :
       /\ analysisTable = store.analyses
       /\ structureTable = store.structures
  /\ IF op = "migrate_from_target"
     THEN tree = <<>> /\ instructions = "" /\ target_in \in TargetInputs
     ELSE /\ tree \in Projects
          /\ target_in = EmptyStructure
          /\ IF op = "generate_target_structure"
             THEN instructions \in Instructions ELSE instructions = ""
  /\ file_info_results = <<>>
  /\ d_idx = 1
  /\ described = <<>>
  /\ migration_structure = EmptyStructure
  /\ pairs = <<>>
  /\ services = <<>>
  /\ p_idx = 1
  /\ plan_calls = 0
  /\ plan_log = <<>>
  /\ target_structure = EmptyStructure
  /\ dirs = {}
  /\ walk = <<>>
  /\ g_idx = 1
  /\ g_content = FALSE
  /\ g_sources = <<>>
  /\ g_snippets = <<>>
  /\ written = <<>>
  /\ faults = 0
  /\ stageLog = <<>>
  /\ result = "none"
  /\ u_fn = "none"
  /\ u_args = <<>>
  /\ u_out = <<>>
  /\ now = 0
  /\ updated_at = [analysis |-> Stamped(<<>>, <<>>, analysisTable, 0),
                   structure |-> Stamped(<<>>, <<>>, structureTable, 0)]
  /\ sessions = <<>>
  /\ g_instructions = ""
  /\ route = NoRequest

CanFail == faults < MaxFaults

Log(stage, ev) == Append(stageLog, <<stage, ev>>)

\* the except branch of the service methods: rollback, re-raise
Raise ==
  /\ pc' = "raised"
  /\ result' = "raised"


(***************************************************************************)
(* AnalysisService (services/analysis_service.py)                          *)
(***************************************************************************)
\* migrate_project, up to the analyzer: output_dir.mkdir
StartMigrateProject ==
  /\ pc = "start" /\ op = "migrate_project"
  /\ dirs' = Mkdir(dirs, OutputDir(project_id))
  /\ pc' = "analyze_extract"
  /\ UNCHANGED << unitVars, callVars, requestVars, storeVars, analyzeVars, planVars, genVars, faults,
                  stageLog, result >>

\* generate_target_structure, up to the analyzer
StartGenerateTargetStructure ==
  /\ pc = "start" /\ op = "generate_target_structure"
  /\ pc' = "analyze_extract"
  /\ UNCHANGED << unitVars, callVars, requestVars, storeVars, analyzeVars, planVars, genVars, dirs,
                  faults, stageLog, result >>

\* migrate_from_target, up to save_target_structure: output_dir.mkdir
StartMigrateFromTarget ==
  /\ pc = "start" /\ op = "migrate_from_target"
  /\ dirs' = Mkdir(dirs, OutputDir(project_id))
  /\ pc' = "save_structure"
  /\ UNCHANGED << unitVars, callVars, requestVars, storeVars, analyzeVars, planVars, genVars, faults,
                  stageLog, result >>

\* analyze_project, steps 1 and 2: gather the files and extract every
\* file's record in the worker pool; the reads in `failing` raise
AnalyzeExtract ==
  /\ pc = "analyze_extract"
  /\ LET project_path == ProjectPath(project_id)
         all_files == GatherFiles(project_path, tree)
     IN \E failing \in SUBSET SeqRange(all_files) :
          /\ faults + Cardinality(failing) <= MaxFaults
          /\ faults' = faults + Cardinality(failing)
          /\ file_info_results' =
               [i \in DOMAIN all_files |->
                  ExtractFileInfo(all_files[i], project_path, all_files[i] \notin failing)]
  /\ stageLog' = Log("analyze", "start")
  /\ pc' = "analyze_deps"
  /\ UNCHANGED << unitVars, callVars, requestVars, storeVars, d_idx, described, planVars, genVars, dirs,
                  result >>

\* mutant: the dependency pass is left out before the description loop
AnalyzeDependencies_Skipped ==
  /\ pc = "analyze_deps"
  /\ d_idx' = 1
  /\ pc' = "analyze_describe"
  /\ UNCHANGED << unitVars, callVars, requestVars, storeVars, file_info_results, described,
                  planVars, genVars, dirs, faults, stageLog, result >>

\* analyze_project, step 3: the dependencies of every record; an
\* exception of _find_dependencies leaves analyze_project
AnalyzeDependencies ==
  /\ pc = "analyze_deps"
  /\ IF \E i \in DOMAIN file_info_results :
          DependenciesRaise(file_info_results[i].content,
                            file_info_results[i].relative_path, file_info_results)
     THEN /\ Raise
          /\ stageLog' = Log("analyze", "fail")
          /\ UNCHANGED << file_info_results, d_idx >>
     ELSE /\ file_info_results' =
               [i \in DOMAIN file_info_results |->
                  [file_info_results[i] EXCEPT
                     !.dependencies = FindDependencies(file_info_results[i].content,
                                                       file_info_results[i].relative_path,
                                                       file_info_results)]]
          /\ d_idx' = 1
          /\ pc' = "analyze_describe"
          /\ UNCHANGED << stageLog, result >>
  /\ UNCHANGED << unitVars, callVars, requestVars, storeVars, described, planVars, genVars, dirs, faults >>

\* analyze_project, step 4, one turn of the loop: the inference call for
\* one record and its description
AnalyzeDescribe ==
  /\ pc = "analyze_describe"
  /\ d_idx <= Len(file_info_results)
  /\ \E outcome \in {"ok", "raise"}, reply \in DescriptionReplies :
       /\ outcome = "raise" => CanFail /\ reply = << <<"Renders", "the", "user", "page">> >>
       /\ faults' = IF outcome = "raise" THEN faults + 1 ELSE faults
       /\ file_info_results' =
            [file_info_results EXCEPT
               ![d_idx].description = GenerateFileDescription(outcome, reply)]
       /\ described' = Append(described,
                              <<file_info_results[d_idx].relative_path, outcome>>)
  /\ d_idx' = d_idx + 1
  /\ UNCHANGED << unitVars, callVars, pc, requestVars, storeVars, planVars, genVars, dirs, stageLog, result >>

\* analyze_project, step 5: _save_analysis writes the analysis file (which
\* can raise) and the results are returned
AnalyzeSave ==
  /\ pc = "analyze_describe"
  /\ d_idx > Len(file_info_results)
  /\ \E write_ok \in BOOLEAN :
       /\ ~ write_ok => CanFail
       /\ faults' = IF write_ok THEN faults ELSE faults + 1
       /\ IF write_ok
          THEN /\ pc' = "save_analysis"
               /\ stageLog' = Log("analyze", "ok")
               /\ result' = result
          ELSE /\ Raise
               /\ stageLog' = Log("analyze", "fail")
  /\ UNCHANGED << unitVars, callVars, requestVars, storeVars, analyzeVars, planVars, genVars, dirs >>

\* mutant: the result of save_analysis is not tested
AnalysisNotSaved_Unchecked(instance) == FALSE

\* `if not analysis_instance: raise`
AnalysisNotSaved(instance) == IsNone(instance)

\* MigrationDBService.save_analysis(db, project_id, analysis_results) and
\* the test of its result
PersistAnalysis ==
  /\ pc = "save_analysis"
  /\ \E commit_ok \in BOOLEAN :
       LET saved == SaveAnalysis(analysisTable, project_id, file_info_results, commit_ok)
       IN /\ ~ commit_ok => CanFail
          /\ faults' = IF commit_ok THEN faults ELSE faults + 1
          /\ analysisTable' = saved.table
          /\ updated_at' = [updated_at EXCEPT
                             !.analysis = Stamped(@, analysisTable, saved.table, now)]
          /\ stageLog' = stageLog \o << <<"persist_analysis", "start">>,
                                        <<"persist_analysis",
                                          IF IsNone(saved.instance) THEN "fail" ELSE "ok">> >>
          /\ IF AnalysisNotSaved(saved.instance)
             THEN Raise
             ELSE pc' = "plan_init" /\ result' = result
  /\ UNCHANGED << unitVars, callVars, requestVars, structureTable, analyzeVars, planVars, genVars, dirs >>

\* the planner's constructor and step 1 of generate_migration_structure:
\* load the analysis, raise on an empty one, identify the pairs
PlanInit ==
  /\ pc = "plan_init"
  /\ LET analysis_data == GetAnalysis(analysisTable, project_id)
     IN IF analysis_data = <<>>
        THEN /\ Raise
             /\ stageLog' = stageLog \o << <<"plan", "start">>, <<"plan", "fail">> >>
             /\ UNCHANGED << migration_structure, pairs >>
        ELSE /\ migration_structure' = InitMigrationStructure(project_id)
             /\ pairs' = IdentifyControllerViewPairs(analysis_data)
             /\ pc' = "plan_components"
             /\ stageLog' = Log("plan", "start")
             /\ result' = result
  /\ p_idx' = 1
  /\ UNCHANGED << unitVars, callVars, requestVars, storeVars, analyzeVars, services, plan_calls, plan_log,
                  target_structure, genVars, dirs, faults >>

\* generate_migration_structure, step 2, one turn of the loop: the
\* inference call for one pair; no structure: warn and continue
PlanComponent ==
  /\ pc = "plan_components"
  /\ p_idx <= Len(pairs)
  /\ \E reply \in ComponentReplies :
       LET controller == pairs[p_idx][1]
           view == pairs[p_idx][2]
           component_structure == GenerateComponentStructure(controller, view, reply)
       IN /\ reply.outcome = "raise" => CanFail
          /\ faults' = IF reply.outcome = "raise" THEN faults + 1 ELSE faults
          /\ plan_log' = Append(plan_log, <<"component", ReplyMark(reply)>>)
          /\ migration_structure' =
               IF ~ component_structure.made THEN migration_structure
               ELSE IF IsLikelyPage(controller, view)
               THEN [migration_structure EXCEPT !.pages = Append(@, component_structure)]
               ELSE [migration_structure EXCEPT !.components = Append(@, component_structure)]
  /\ plan_calls' = plan_calls + 1
  /\ p_idx' = p_idx + 1
  /\ UNCHANGED << unitVars, callVars, pc, requestVars, storeVars, analyzeVars, pairs, services,
                  target_structure, genVars, dirs, stageLog, result >>

\* generate_migration_structure, step 3: identify the services
PlanIdentifyServices ==
  /\ pc = "plan_components"
  /\ p_idx > Len(pairs)
  /\ services' = IdentifyServices(GetAnalysis(analysisTable, project_id))
  /\ p_idx' = 1
  /\ pc' = "plan_services"
  /\ UNCHANGED << unitVars, callVars, requestVars, storeVars, analyzeVars, migration_structure, pairs,
                  plan_calls, plan_log, target_structure, genVars, dirs, faults,
                  stageLog, result >>

\* generate_migration_structure, step 3, one turn of the loop
PlanService ==
  /\ pc = "plan_services"
  /\ p_idx <= Len(services)
  /\ \E reply \in ServiceReplies :
       LET service_structure == GenerateServiceStructure(services[p_idx], reply)
       IN /\ reply.outcome = "raise" => CanFail
          /\ faults' = IF reply.outcome = "raise" THEN faults + 1 ELSE faults
          /\ plan_log' = Append(plan_log, <<"service", ReplyMark(reply)>>)
          /\ migration_structure' =
               IF ~ service_structure.made THEN migration_structure
               ELSE IF service_structure.migrationType = "hook"
               THEN [migration_structure EXCEPT !.hooks = Append(@, service_structure)]
               ELSE IF service_structure.migrationType = "context"
               THEN [migration_structure EXCEPT !.contexts = Append(@, service_structure)]
               ELSE [migration_structure EXCEPT !.services = Append(@, service_structure)]
  /\ plan_calls' = plan_calls + 1
  /\ p_idx' = p_idx + 1
  /\ UNCHANGED << unitVars, callVars, pc, requestVars, storeVars, analyzeVars, pairs, services,
                  target_structure, genVars, dirs, stageLog, result >>

\* generate_migration_structure, step 4: the routing structure, kept only
\* when one came back
PlanRouting ==
  /\ pc = "plan_services"
  /\ p_idx > Len(services)
  /\ \E reply \in RoutingReplies :
       LET routing_structure == GenerateRoutingStructure(reply)
       IN /\ reply.outcome = "raise" => CanFail
          /\ faults' = IF reply.outcome = "raise" THEN faults + 1 ELSE faults
          /\ plan_log' = Append(plan_log, <<"routing", ReplyMark(reply)>>)
          /\ migration_structure' =
               IF routing_structure.present
               THEN [migration_structure EXCEPT !.routing = routing_structure]
               ELSE migration_structure
  /\ plan_calls' = plan_calls + 1
  /\ pc' = "plan_finish"
  /\ UNCHANGED << unitVars, callVars, requestVars, storeVars, analyzeVars, pairs, services, p_idx,
                  target_structure, genVars, dirs, stageLog, result >>

\* generate_migration_structure, steps 5 and 6: save the structure file
\* (which can raise), add the statistics (a routing reply without "routes"
\* raises KeyError), return the structure
PlanFinish ==
  /\ pc = "plan_finish"
  /\ \E write_ok \in BOOLEAN :
       /\ ~ write_ok => CanFail
       /\ faults' = IF write_ok THEN faults ELSE faults + 1
       /\ IF write_ok /\ migration_structure.routing.has_routes
          THEN /\ migration_structure' = [migration_structure EXCEPT !.statistics = TRUE]
               /\ target_structure' = migration_structure'
               /\ pc' = "save_structure"
               /\ stageLog' = Log("plan", "ok")
               /\ result' = result
          ELSE /\ Raise
               /\ stageLog' = Log("plan", "fail")
               /\ UNCHANGED << migration_structure, target_structure >>
  /\ UNCHANGED << unitVars, callVars, requestVars, storeVars, analyzeVars, pairs, services, p_idx,
                  plan_calls, plan_log, genVars, dirs >>

\* `if not structure_instance: raise`
StructureNotSaved(instance) == IsNone(instance)

\* mutant: a structure that cannot be saved takes the saved analysis with it
PersistStructure_UndoesAnalysis ==
  /\ pc = "save_structure"
  /\ \E commit_ok \in BOOLEAN :
       LET structure_data == IF op = "migrate_from_target" THEN target_in
                             ELSE target_structure
           instr == IF op = "generate_target_structure" THEN instructions ELSE ""
           saved == SaveTargetStructure(structureTable, analysisTable, project_id,
                                        structure_data, instr, commit_ok)
       IN /\ ~ commit_ok => CanFail
          /\ faults' = IF commit_ok THEN faults ELSE faults + 1
          /\ structureTable' = saved.table
          /\ updated_at' = [updated_at EXCEPT
                             !.structure = Stamped(@, structureTable, saved.table, now)]
          /\ stageLog' = stageLog \o << <<"persist_structure", "start">>,
                                        <<"persist_structure",
                                          IF IsNone(saved.instance) THEN "fail" ELSE "ok">> >>
          /\ IF StructureNotSaved(saved.instance)
             THEN Raise
             ELSE IF op = "generate_target_structure"
             THEN pc' = "returned" /\ result' = "returned"
             ELSE pc' = "gen_start" /\ result' = result
  /\ analysisTable' =
       IF AnalysisMissing(analysisTable, project_id) \/ faults' = faults
       THEN analysisTable ELSE <<>>
  /\ UNCHANGED << unitVars, callVars, requestVars, analyzeVars, planVars, genVars, dirs >>

\* MigrationDBService.save_target_structure(...) and the test of its
\* result; generate_target_structure returns after it
PersistStructure ==
  /\ pc = "save_structure"
  /\ \E commit_ok \in BOOLEAN :
       LET structure_data == IF op = "migrate_from_target" THEN target_in
                             ELSE target_structure
           instr == IF op = "generate_target_structure" THEN instructions ELSE ""
           saved == SaveTargetStructure(structureTable, analysisTable, project_id,
                                        structure_data, instr, commit_ok)
       IN /\ ~ commit_ok => CanFail
          /\ faults' = IF commit_ok THEN faults ELSE faults + 1
          /\ structureTable' = saved.table
          /\ updated_at' = [updated_at EXCEPT
                             !.structure = Stamped(@, structureTable, saved.table, now)]
          /\ stageLog' = stageLog \o << <<"persist_structure", "start">>,
                                        <<"persist_structure",
                                          IF IsNone(saved.instance) THEN "fail" ELSE "ok">> >>
          /\ IF StructureNotSaved(saved.instance)
             THEN Raise
             ELSE IF op = "generate_target_structure"
             THEN pc' = "returned" /\ result' = "returned"
             ELSE pc' = "gen_start" /\ result' = result
  /\ UNCHANGED << unitVars, callVars, requestVars, analysisTable, analyzeVars, planVars, genVars, dirs >>


\* generate_project, first step: the generator loads the stored structure
\* and analysis and creates the output directories
GenStart ==
  /\ pc = "gen_start"
  /\ LET migration_data == GetTargetStructure(structureTable, project_id).structure_data
         output_dir == OutputDir(project_id)
     IN /\ dirs' = CreateDirectoryStructure(dirs, output_dir)
        /\ walk' = WalkItems(output_dir, migration_data)
  /\ g_idx' = 1
  /\ g_content' = FALSE
  /\ g_instructions' =
       IF op = "migrate_from_target"
       THEN GetTargetStructure(structureTable, project_id).instructions
       ELSE instructions
  /\ stageLog' = Log("generate", "start")
  /\ pc' = "gen_walk"
  /\ UNCHANGED << unitVars, callVars, requestVars, storeVars, analyzeVars, planVars, g_sources, g_snippets,
                  written, faults, result >>

\* mutant: success is reported with the last file still to produce
WalkFinished_OneEarly(idx, items) == idx >= Len(items)

\* the loops of generate_project have produced every file
WalkFinished(idx, items) == idx > Len(items)

\* one file, first half: collect the source contents and await the
\* inference call; a call that raises is not caught anywhere below
\* migrate_project
GenRequest ==
  /\ pc = "gen_walk"
  /\ ~ WalkFinished(g_idx, walk)
  /\ g_idx <= Len(walk)
  /\ ~ g_content
  /\ g_sources' = SourceContents(walk[g_idx].sourceFiles,
                                 GetAnalysis(analysisTable, project_id))
  /\ g_snippets' = SourceSnippets(g_sources', GetAnalysis(analysisTable, project_id))
  /\ \E outcome \in {"ok", "raise"} :
       /\ outcome = "raise" => CanFail /\ walk[g_idx].llm
       /\ faults' = IF outcome = "raise" THEN faults + 1 ELSE faults
       /\ IF outcome = "ok"
          THEN /\ g_content' = TRUE
               /\ UNCHANGED << pc, result, stageLog >>
          ELSE /\ Raise
               /\ stageLog' = Log("generate", "fail")
               /\ UNCHANGED g_content
  /\ UNCHANGED << unitVars, callVars, requestVars, storeVars, analyzeVars, planVars, walk, g_idx, written,
                  g_instructions, dirs >>

\* one file, second half: open(path, 'w') and write; raises when the
\* directory of the file does not exist or the write fails
GenWrite ==
  /\ pc = "gen_walk"
  /\ g_content
  /\ \E write_ok \in BOOLEAN :
       /\ ~ write_ok => CanFail
       /\ faults' = IF write_ok THEN faults ELSE faults + 1
       /\ IF write_ok /\ CanOpen(dirs, walk[g_idx].path)
          THEN /\ written' = Append(written, walk[g_idx])
               /\ g_idx' = g_idx + 1
               /\ g_content' = FALSE
               /\ UNCHANGED << pc, result, stageLog >>
          ELSE /\ Raise
               /\ stageLog' = Log("generate", "fail")
               /\ UNCHANGED << written, g_idx, g_content >>
  /\ UNCHANGED << unitVars, callVars, requestVars, storeVars, analyzeVars, planVars, walk, g_sources,
                  g_snippets, g_instructions, dirs >>

\* generate_project has returned: {"status": "success", ...}
ReturnSuccess ==
  /\ pc = "gen_walk"
  /\ WalkFinished(g_idx, walk)
  /\ ~ g_content
  /\ pc' = "returned"
  /\ result' = "success"
  /\ stageLog' = Log("generate", "ok")
  /\ UNCHANGED << unitVars, callVars, requestVars, storeVars, analyzeVars, planVars, genVars, dirs, faults >>

Next ==
  \/ StartMigrateProject
  \/ StartGenerateTargetStructure
  \/ StartMigrateFromTarget
  \/ AnalyzeExtract
  \/ AnalyzeDependencies
  \/ AnalyzeDescribe
  \/ AnalyzeSave
  \/ PersistAnalysis
  \/ PlanInit
  \/ PlanComponent
  \/ PlanIdentifyServices
  \/ PlanService
  \/ PlanRouting
  \/ PlanFinish
  \/ PersistStructure
  \/ GenStart
  \/ GenRequest
  \/ GenWrite
  \/ ReturnSuccess

Spec == Init /\ [][Next]_vars


(***************************************************************************)
(* The helpers of the analyzer applied on their own, to arguments beyond   *)
(* those the fixture projects produce.                                     *)
(***************************************************************************)
\* the keys an analysis can hold
UnitKnownFiles ==
  { <<"x", "/", "y", ".", "js">>, <<"x", "/", "b", ".", "js">>,
    <<"x", "/", "foo", ".", "html">>, <<"b", ".", "js">>,
    <<"x", "/", "b", ".", "md">>, <<"x", "/", "foo", ".", "js", ".", "json">> }

\* the strings a require, import, src, href or ng-include can name
UnitImports ==
  { <<".", "/", "foo">>,
    <<".", "/", "foo", ".", "html">>,
    <<".", "/", "a", "/", ".", ".", "/", "b", ".", "js">>,
    <<".", ".", "/", "b", ".", "js">>,
    <<".", ".", "/", ".", ".", "/", "b", ".", "js">>,
    <<".", "/", "b">>,
    <<".", "/", "b", ".", "md">>,
    <<".", "/", "b", ".", "js", "?", "v=1">>,
    <<".", "/", "b", ".", "js", "#", "top">>,
    <<"x", "/", "b", ".", "js">>,
    <<"x", "/", "b">>,
    <<"lodash">>,
    <<"http:", "/", "/", "cdn", "/", "b", ".", "js">>,
    <<"https:", "/", "/", "cdn", "/", "b", ".", "js">>,
    <<"/", "x", "/", "b", ".", "js">> }

UnitCurrentFiles == { <<"x", "/", "y", ".", "js">>, <<"y", ".", "js">> }

UnitResolvePath ==
  /\ u_fn = "none"
  /\ \E import_path \in UnitImports, current_file \in UnitCurrentFiles,
        all_files \in SUBSET UnitKnownFiles :
       /\ u_fn' = "_resolve_path"
       /\ u_args' = [import_path |-> import_path, current_file |-> current_file,
                     all_files |-> all_files]
       /\ u_out' = ResolvePath(import_path, current_file, all_files)
  /\ UNCHANGED << callVars, pc, requestVars, storeVars, analyzeVars, planVars, genVars, dirs,
                  faults, stageLog, result >>

\* _find_dependencies of one record of a project, when it returns
UnitFindDependencies ==
  /\ u_fn = "none"
  /\ \E t \in Projects :
       LET project_path == ProjectPath("p1")
           all_files == GatherFiles(project_path, t)
       IN \E failing \in SUBSET SeqRange(all_files) :
            LET infos == [i \in DOMAIN all_files |->
                            ExtractFileInfo(all_files[i], project_path,
                                            all_files[i] \notin failing)]
            IN \E i \in DOMAIN infos :
                 /\ ~ DependenciesRaise(infos[i].content, infos[i].relative_path, infos)
                 /\ u_fn' = "_find_dependencies"
                 /\ u_args' = [file_path |-> infos[i].relative_path,
                               all_files |-> Keys(infos), unread |-> failing]
                 /\ u_out' = FindDependencies(infos[i].content, infos[i].relative_path,
                                              infos)
  /\ UNCHANGED << callVars, pc, requestVars, storeVars, analyzeVars, planVars, genVars, dirs,
                  faults, stageLog, result >>

\* files a project directory can hold, relative to its root
UnitTreeFiles ==
  { CtrlJs, LogoPng, VendorJs,
    <<"app", "/", "build", "er", ".", "js">>,
    <<"app", "/", "build", "/", "x", ".", "css">>,
    <<"dist", "/", "app", ".", "js">>,
    <<"re", "dist", "ribute", "/", "x", ".", "html">>,
    <<".", "git", "/", "config", ".", "json">>,
    <<"docs", "/", "notes", ".", "md">> }

\* where the project directory is: below the uploads directory of the
\* deployed application
UnitRoots ==
  { ProjectPath("p1"), <<"/", "opt", "/", "build", "/", "uploads", "/", "p1">> }

UnitGatherFiles ==
  /\ u_fn = "none"
  /\ \E project_path \in UnitRoots, f1 \in UnitTreeFiles, f2 \in UnitTreeFiles :
       /\ u_fn' = "_gather_files"
       /\ u_args' = [project_path |-> project_path, tree |-> <<f1, f2>>]
       /\ u_out' = GatherFiles(project_path, <<f1, f2>>)
  /\ UNCHANGED << callVars, pc, requestVars, storeVars, analyzeVars, planVars, genVars, dirs,
                  faults, stageLog, result >>

(***************************************************************************)
(* The validation pass of the structure planner (_validate_structure).     *)
(* A structure is the sequence of its [key, node] entries in document      *)
(* order.  A field of a node is [kind, v]: kind "absent" when the reply     *)
(* does not hold it, "text" for a string (v = <<the string>>) and "list"   *)
(* for a list of strings.  A directory's `children` is again a structure.  *)
(***************************************************************************)
NoField == [kind |-> "absent", v |-> <<>>]

TextField(s) == [kind |-> "text", v |-> <<s>>]

ListField(l) == [kind |-> "list", v |-> l]

Node(name, path, type, deps, sources, desc, suggestions, kids) ==
  [file_name |-> name, relative_path |-> path, file_type |-> type,
   dependencies |-> deps, source_files |-> sources, description |-> desc,
   migration_suggestions |-> suggestions, children |-> kids]

StructEntry(k, n) == [key |-> k, node |-> n]

\* a node is a file entry iff it contains file_type
IsFileEntry(node) == node.file_type.kind # "absent"

\* "Default <field> for <key>"; the blanks between the words are left out
Placeholder(field, key) == <<"Default", field, "for">> \o key

\* mutant: only the first leading separator is taken off
StripLeadingDot_Once(s) ==
  IF s # <<>> /\ Head(s) = "." THEN Tail(s) ELSE s

\* file_type without its leading separators
RECURSIVE StripLeadingDot(_)
StripLeadingDot(s) ==
  IF s # <<>> /\ Head(s) = "." THEN StripLeadingDot(Tail(s)) ELSE s

\* a list-valued field: kept when it is a list, else the empty list
ListOrEmpty(field) == IF field.kind = "list" THEN field ELSE ListField(<<>>)

\* a text field: kept when present, else the placeholder
TextOrDefault(field, name, key) ==
  IF field.kind = "absent" THEN TextField(Placeholder(name, key)) ELSE field

\* mutant: a string given for dependencies / source_files is kept
ValidateEntry_KeepsNonList(key, node) ==
  [node EXCEPT
     !.file_name = TextField(BaseName(key)),
     !.relative_path = IF @.kind = "absent" THEN TextField(key) ELSE @,
     !.file_type = TextField(StripLeadingDot(@.v[1])),
     !.dependencies = IF @.kind = "absent" THEN ListField(<<>>) ELSE @,
     !.source_files = IF @.kind = "absent" THEN ListField(<<>>) ELSE @,
     !.description = TextOrDefault(@, "description", key),
     !.migration_suggestions = TextOrDefault(@, "migration_suggestions", key)]

\* the repair of one file entry
ValidateEntry(key, node) ==
  [node EXCEPT
     !.file_name = TextField(BaseName(key)),
     !.relative_path = IF @.kind = "absent" THEN TextField(key) ELSE @,
     !.file_type = TextField(StripLeadingDot(@.v[1])),
     !.dependencies = ListOrEmpty(@),
     !.source_files = ListOrEmpty(@),
     !.description = TextOrDefault(@, "description", key),
     !.migration_suggestions = TextOrDefault(@, "migration_suggestions", key)]

\* node by node: a file entry is repaired, a directory entry is kept as it
\* is and every child of it is validated
RECURSIVE ValidateStructure(_)
ValidateStructure(structure) ==
  [i \in DOMAIN structure |->
     LET key == structure[i].key
         node == structure[i].node
     IN StructEntry(key,
          IF IsFileEntry(node) THEN ValidateEntry(key, node)
          ELSE [node EXCEPT !.children = ValidateStructure(@)])]

\* the file entries a reply of the model can hold for one key
UnitFileEntries ==
  { Node(name, path, type, deps, sources, desc, suggestions, <<>>) :
      name \in { NoField, TextField(<<"Main", ".", "jsx">>) },
      path \in { NoField, TextField(<<"src", "/", "App", ".", "jsx">>) },
      type \in { TextField(<<"jsx">>), TextField(<<".", "jsx">>),
                 TextField(<<".", ".", "jsx">>) },
      deps \in { NoField, TextField(<<"react">>), ListField(<< <<"react">> >>) },
      sources \in { NoField, TextField(CtrlJs), ListField(<< CtrlJs >>) },
      desc \in { NoField, TextField(<<"Root", "component">>) },
      suggestions \in { NoField, TextField(<<"Use", "hooks">>) } }

\* the structures a reply can hold around one file entry: the flat mapping
\* (key = path), the nested tree (key = path segment), and a tree with a
\* directory below a directory
UnitStructures(entry) ==
  LET DirectoryNode(kids) ==
        Node(NoField, NoField, NoField, NoField, NoField, NoField, NoField, kids)
      IndexJs ==
        Node(TextField(<<"index", ".", "js">>),
             TextField(<<"src", "/", "index", ".", "js">>),
             TextField(<<"js">>), ListField(<<>>), ListField(<<>>), NoField, NoField,
             <<>>)
  IN { << StructEntry(<<"src", "/", "App", ".", "jsx">>, entry) >>,
       << StructEntry(<<"src">>,
            DirectoryNode(<< StructEntry(<<"App", ".", "jsx">>, entry),
                             StructEntry(<<"index", ".", "js">>, IndexJs) >>)) >>,
       << StructEntry(<<"src">>,
            DirectoryNode(<< StructEntry(<<"pages">>,
              DirectoryNode(<< StructEntry(<<"App", ".", "jsx">>, entry) >>)) >>)),
          StructEntry(<<"index", ".", "js">>, IndexJs) >> }

UnitValidateStructure ==
  /\ u_fn = "none"
  /\ \E entry \in UnitFileEntries :
       \E structure \in UnitStructures(entry) :
         /\ u_fn' = "_validate_structure"
         /\ u_args' = [structure |-> structure]
         /\ u_out' = ValidateStructure(structure)
  /\ UNCHANGED << callVars, pc, requestVars, storeVars, analyzeVars, planVars, genVars, dirs,
                  faults, stageLog, result >>

(***************************************************************************)
(* clean_migration_data (utils/migration_data_cleaner.py).  A dictionary   *)
(* is the sequence of its items [key, val] in insertion order; a value is  *)
(* [kind, v, items]: kind "dict" with its items, or "text" / "list" with   *)
(* the strings in v.                                                       *)
(***************************************************************************)
folder_allowed_keys ==
  { <<"public">>, <<"src">>, <<"components">>, <<"services">>, <<"directives">>,
    <<"styles">> }

\* any(k in value for k in ['file_name', 'file_type', 'relative_path'])
HasFileMetadata(value) ==
  \E i \in DOMAIN value.items :
    value.items[i].key \in { <<"file_name">>, <<"file_type">>, <<"relative_path">> }

\* clean_node for a dictionary: a dictionary value with file metadata is
\* kept, one under an allowed folder name is cleaned, any other dictionary
\* value is left out; the other values are kept
RECURSIVE CleanNode(_)
CleanNode(node) ==
  IF node = <<>> THEN <<>>
  ELSE LET key == Head(node).key
           value == Head(node).val
           rest == CleanNode(Tail(node))
       IN IF value.kind = "dict"
          THEN IF HasFileMetadata(value) THEN << Head(node) >> \o rest
               ELSE IF key \in folder_allowed_keys \/ key = <<"files">>
               THEN << [key |-> key,
                        val |-> [value EXCEPT !.items = CleanNode(@)]] >> \o rest
               ELSE rest
          ELSE << Head(node) >> \o rest

\* migration data a planner reply can hold: a folder at the root with a
\* file, a folder below it with a file, and metadata on the root folder
UnitMigrationData ==
  LET Text(s) == [kind |-> "text", v |-> <<s>>, items |-> <<>>]
      List(l) == [kind |-> "list", v |-> l, items |-> <<>>]
      Dict(items) == [kind |-> "dict", v |-> <<>>, items |-> items]
      KV(k, value) == [key |-> k, val |-> value]
      Opt(present, item) == IF present THEN << item >> ELSE <<>>
      AppJsx(fields) ==
        Dict(Opt("file_name" \in fields, KV(<<"file_name">>, Text(<<"App", ".", "jsx">>)))
             \o Opt("file_type" \in fields, KV(<<"file_type">>, Text(<<"jsx">>)))
             \o << KV(<<"description">>, Text(<<"Root", "component">>)) >>)
      NavJsx ==
        Dict(<< KV(<<"file_name">>, Text(<<"Nav", ".", "jsx">>)),
                KV(<<"file_type">>, Text(<<"jsx">>)),
                KV(<<"dependencies">>, List(<< <<"react">> >>)) >>)
  IN { << KV(root,
             Dict(Opt(text, KV(<<"description">>, Text(<<"Sources">>)))
                  \o Opt(list, KV(<<"dependencies">>, List(<< <<"react">> >>)))
                  \o Opt(dict, KV(<<"migration_suggestions">>,
                                  Dict(<< KV(<<"code_transformation">>,
                                             Text(<<"none">>)) >>)))
                  \o Opt(named, KV(<<"file_name">>, Text(root)))
                  \o << KV(<<"App", ".", "jsx">>, AppJsx(fields)),
                        KV(folder, Dict(<< KV(<<"Nav", ".", "jsx">>, NavJsx) >>)) >>)) >> :
       root \in { <<"src">>, <<"app">> },
       folder \in { <<"components">>, <<"pages">> },
       text \in BOOLEAN, list \in BOOLEAN, dict \in BOOLEAN, named \in BOOLEAN,
       fields \in { {"file_name", "file_type"}, {"file_type"}, {"file_name"} } }

UnitCleanMigrationData ==
  /\ u_fn = "none"
  /\ \E data \in UnitMigrationData :
       /\ u_fn' = "clean_migration_data"
       /\ u_args' = [data |-> data]
       /\ u_out' = CleanNode(data)
  /\ UNCHANGED << callVars, pc, requestVars, storeVars, analyzeVars, planVars, genVars, dirs,
                  faults, stageLog, result >>

(* get_specialized_prompt: the caller's list is sorted in place as Python   *)
(* sorts strings, joined with "-", and the key is looked up in the table.   *)
FileTypes == { "javascript", "html", "cshtml", "css", "scss" }

StrOrder == << "cshtml", "css", "html", "javascript", "scss" >>

StrLess(a, b) ==
  \E i, j \in DOMAIN StrOrder : StrOrder[i] = a /\ StrOrder[j] = b /\ i < j

RECURSIVE Insert(_, _)
Insert(sorted, x) ==
  IF sorted = << >> THEN << x >>
  ELSE IF StrLess(x, Head(sorted)) THEN << x >> \o sorted
       ELSE << Head(sorted) >> \o Insert(Tail(sorted), x)

RECURSIVE Sort(_)
Sort(file_types) ==
  IF file_types = << >> THEN << >>
  ELSE Insert(Sort(SubSeq(file_types, 1, Len(file_types) - 1)),
              file_types[Len(file_types)])

RECURSIVE Join(_)
Join(file_types) ==
  IF file_types = << >> THEN ""
  ELSE IF Len(file_types) = 1 THEN Head(file_types)
       ELSE Head(file_types) \o "-" \o Join(Tail(file_types))

prompts ==
  { "javascript", "html", "cshtml", "css", "scss",
    "javascript-html", "javascript-cshtml", "javascript-css", "javascript-scss",
    "javascript-html-css", "javascript-html-scss",
    "javascript-cshtml-css", "javascript-cshtml-scss" }

get_specialized_prompt(file_types) ==
  LET file_types_key == Join(Sort(file_types))
  IN  [ file_types_key |-> file_types_key,
        file_types     |-> Sort(file_types),
        prompt         |-> IF file_types_key \in prompts THEN "specialized"
                                                         ELSE "generic" ]

UnitFileTypeLists ==
  { l \in UNION { [1..n -> FileTypes] : n \in 1..Cardinality(FileTypes) - 2 } :
      \A i, j \in DOMAIN l : l[i] = l[j] => i = j }

UnitGetSpecializedPrompt ==
  /\ u_fn = "none"
  /\ \E file_types \in UnitFileTypeLists :
       /\ u_fn' = "get_specialized_prompt"
       /\ u_args' = [file_types |-> file_types]
       /\ u_out' = get_specialized_prompt(file_types)
  /\ UNCHANGED << callVars, pc, requestVars, storeVars, analyzeVars, planVars, genVars, dirs,
                  faults, stageLog, result >>

UnitNext ==
  \/ UnitResolvePath
  \/ UnitFindDependencies
  \/ UnitGatherFiles
  \/ UnitValidateStructure
  \/ UnitCleanMigrationData
  \/ UnitGetSpecializedPrompt

UnitSpec == Init /\ [][UnitNext]_vars

(***************************************************************************)
(* The store on its own: the methods of MigrationDBService and of          *)
(* CleanupService called one after another, by any client, for any         *)
(* project.  u_fn, u_args and u_out hold the last call and what it         *)
(* returned.                                                               *)
(***************************************************************************)
\* delete_project_data on one table: the first row of the project
DeleteFirst(table, pid) ==
  IF Matching(table, pid) = {} THEN table
  ELSE LET i == FirstIndex(table, pid)
       IN SubSeq(table, 1, i - 1) \o SubSeq(table, i + 1, Len(table))

\* cleanup_old_records on one table: the rows with updated_at < cutoff_time
\* are deleted
WithoutOld(table, stamps, cutoff_time) ==
  LET Kept(row) == ~ (stamps[row.id] < cutoff_time)
  IN SelectSeq(table, Kept)

\* the analyses and structures the clients of the store save; what is in
\* them is of no concern to the store
AnalysisInputs == { <<>>, <<"analysis", "1">>, <<"analysis", "2">> }

StructureInputs ==
  { EmptyStructure, InitMigrationStructure("p1"), InitMigrationStructure("p2") }

\* what is stored when the calls start
StoredBefore ==
  { [analyses |-> <<>>, structures |-> <<>>],
    [analyses |-> << [id |-> 1, project_id |-> "p1",
                      analysis_data |-> <<"analysis", "1">>] >>,
     structures |-> << [id |-> 1, project_id |-> "p1",
                        structure_data |-> InitMigrationStructure("p1"),
                        instructions |-> "keep classes"] >>] }

StoreInit ==
  /\ pc = "store" /\ op = "none" /\ project_id = "" /\ tree = <<>>
  /\ instructions = "" /\ target_in = EmptyStructure
  /\ \E store \in StoredBefore :
       /\ analysisTable = store.analyses
       /\ structureTable = store.structures
  /\ updated_at = [analysis |-> Stamped(<<>>, <<>>, analysisTable, 0),
                   structure |-> Stamped(<<>>, <<>>, structureTable, 0)]
  /\ now = 0 /\ sessions = <<>> /\ route = NoRequest
  /\ file_info_results = <<>> /\ d_idx = 1 /\ described = <<>>
  /\ migration_structure = EmptyStructure /\ pairs = <<>> /\ services = <<>>
  /\ p_idx = 1 /\ plan_calls = 0 /\ plan_log = <<>>
  /\ target_structure = EmptyStructure
  /\ dirs = {} /\ walk = <<>> /\ g_idx = 1 /\ g_content = FALSE
  /\ g_sources = <<>> /\ g_snippets = <<>> /\ written = <<>> /\ g_instructions = ""
  /\ faults = 0 /\ stageLog = <<>> /\ result = "none"
  /\ u_fn = "none" /\ u_args = <<>> /\ u_out = <<>>

\* save_analysis(db, project_id, analysis_data)
StoreSaveAnalysis ==
  /\ \E pid \in ProjectIds, analysis_data \in AnalysisInputs,
        commit_ok \in BOOLEAN :
       LET saved == SaveAnalysis(analysisTable, pid, analysis_data, commit_ok)
       IN /\ NextId(saved.table) <= MaxId + 1
          /\ analysisTable' = saved.table
          /\ updated_at' = [updated_at EXCEPT
                             !.analysis = Stamped(@, analysisTable, saved.table, now)]
          /\ u_fn' = "save_analysis"
          /\ u_args' = [project_id |-> pid, data |-> analysis_data]
          /\ u_out' = saved.instance
  /\ UNCHANGED << callVars, pc, requestVars, structureTable, analyzeVars, planVars,
                  genVars, dirs, faults, stageLog, result >>

\* save_target_structure(db, project_id, structure_data, instructions)
StoreSaveTargetStructure ==
  /\ \E pid \in ProjectIds, structure_data \in StructureInputs,
        instr \in Instructions, commit_ok \in BOOLEAN :
       LET saved == SaveTargetStructure(structureTable, analysisTable, pid,
                                        structure_data, instr, commit_ok)
       IN /\ NextId(saved.table) <= MaxId + 1
          /\ structureTable' = saved.table
          /\ updated_at' = [updated_at EXCEPT
                             !.structure = Stamped(@, structureTable, saved.table, now)]
          /\ u_fn' = "save_target_structure"
          /\ u_args' = [project_id |-> pid, data |-> structure_data]
          /\ u_out' = saved.instance
  /\ UNCHANGED << callVars, pc, requestVars, analysisTable, analyzeVars, planVars,
                  genVars, dirs, faults, stageLog, result >>

\* delete_project_data(db, project_id): the structure, then the analysis,
\* one commit; a commit that raises is rolled back
StoreDeleteProjectData ==
  /\ \E pid \in ProjectIds, commit_ok \in BOOLEAN :
       /\ structureTable' = IF commit_ok THEN DeleteFirst(structureTable, pid)
                            ELSE structureTable
       /\ analysisTable' = IF commit_ok THEN DeleteFirst(analysisTable, pid)
                           ELSE analysisTable
       /\ u_args' = [project_id |-> pid, data |-> <<>>]
  /\ updated_at' = [analysis |-> Stamped(updated_at.analysis, analysisTable,
                                         analysisTable', now),
                    structure |-> Stamped(updated_at.structure, structureTable,
                                          structureTable', now)]
  /\ u_fn' = "delete_project_data"
  /\ u_out' = <<>>
  /\ UNCHANGED << callVars, pc, requestVars, analyzeVars, planVars, genVars, dirs,
                  faults, stageLog, result >>

\* cleanup_old_records(db, hours): the old structures, then the old
\* analyses, one commit
StoreCleanupOldRecords ==
  /\ \E hours \in CleanupHours, commit_ok \in BOOLEAN :
       LET cutoff_time == now - hours
       IN /\ structureTable' =
               IF commit_ok
               THEN WithoutOld(structureTable, updated_at.structure, cutoff_time)
               ELSE structureTable
          /\ analysisTable' =
               IF commit_ok
               THEN WithoutOld(analysisTable, updated_at.analysis, cutoff_time)
               ELSE analysisTable
          /\ u_args' = [project_id |-> "", data |-> <<>>]
  /\ updated_at' = [analysis |-> Stamped(updated_at.analysis, analysisTable,
                                         analysisTable', now),
                    structure |-> Stamped(updated_at.structure, structureTable,
                                          structureTable', now)]
  /\ u_fn' = "cleanup_old_records"
  /\ u_out' = <<>>
  /\ UNCHANGED << callVars, pc, requestVars, analyzeVars, planVars, genVars, dirs,
                  faults, stageLog, result >>

\* an hour passes
Tick ==
  /\ now < MaxTime
  /\ now' = now + 1
  /\ UNCHANGED << unitVars, sessions, route, pc, requestVars, storeVars, analyzeVars, planVars,
                  genVars, dirs, faults, stageLog, result >>

\* the calls of MigrationDBService
StoreNext ==
  \/ StoreSaveAnalysis
  \/ StoreSaveTargetStructure
  \/ StoreDeleteProjectData

StoreSpec == StoreInit /\ [][StoreNext]_vars

\* the same calls while time passes and CleanupService runs
RetentionNext ==
  \/ StoreSaveAnalysis
  \/ StoreSaveTargetStructure
  \/ StoreDeleteProjectData
  \/ StoreCleanupOldRecords
  \/ Tick

RetentionSpec == StoreInit /\ [][RetentionNext]_vars

(***************************************************************************)
(* Two clients of the store at once.  Each call has its own session        *)
(* (db = next(get_db())); a save is a query followed, in a later step, by  *)
(* the write and its commit, and the other call may run in between.        *)
(***************************************************************************)
\* what the write of a save does to the table, `found` being the id of the
\* row its query returned (0 for none): save_analysis 27-42,
\* save_target_structure 72-88
WriteRow(table, call, found) ==
  IF found # 0
  THEN [i \in DOMAIN table |->
          IF table[i].id # found THEN table[i]
          ELSE IF call.fn = "save_analysis"
          THEN [table[i] EXCEPT !.analysis_data = call.data]
          ELSE [table[i] EXCEPT !.structure_data = call.data]]
  ELSE Append(table,
              IF call.fn = "save_analysis"
              THEN [id |-> NextId(table), project_id |-> call.project_id,
                    analysis_data |-> call.data]
              ELSE [id |-> NextId(table), project_id |-> call.project_id,
                    structure_data |-> call.data, instructions |-> ""])

\* a call starts: the inputs are validated and the queries run
\* (save_analysis 20-25, save_target_structure 59-70)
RaceQuery ==
  /\ Len(sessions) < MaxSessions
  /\ \E fn \in {"save_analysis", "save_target_structure"}, pid \in ProjectIds,
        n \in {"1", "2"} :
       LET table == IF fn = "save_analysis" THEN analysisTable ELSE structureTable
           refused == fn = "save_target_structure" /\ AnalysisMissing(analysisTable, pid)
       IN sessions' = Append(sessions,
            [fn |-> fn, project_id |-> pid,
             data |-> IF fn = "save_analysis" THEN <<"analysis", n>>
                      ELSE InitMigrationStructure("p" \o n),
             found |-> FirstRow(table, pid, NoAnalysisRow).id,
             pc |-> IF refused THEN "returned_none" ELSE "queried",
             order |-> 0])
  /\ UNCHANGED << unitVars, now, route, pc, requestVars, storeVars, analyzeVars, planVars,
                  genVars, dirs, faults, stageLog, result >>

\* the write of a call and its commit; a commit that raises is rolled back
RaceCommit ==
  /\ \E s \in DOMAIN sessions, commit_ok \in BOOLEAN :
       LET call == sessions[s]
           committed == {i \in DOMAIN sessions : sessions[i].pc = "committed"}
       IN /\ call.pc = "queried"
          /\ sessions' = [sessions EXCEPT
               ![s].pc = IF commit_ok THEN "committed" ELSE "returned_none",
               ![s].order = IF commit_ok THEN Cardinality(committed) + 1 ELSE 0]
          /\ IF ~ commit_ok
             THEN UNCHANGED storeVars
             ELSE IF call.fn = "save_analysis"
             THEN /\ analysisTable' = WriteRow(analysisTable, call, call.found)
                  /\ updated_at' = [updated_at EXCEPT
                       !.analysis = Stamped(@, analysisTable, analysisTable', now)]
                  /\ UNCHANGED structureTable
             ELSE /\ structureTable' = WriteRow(structureTable, call, call.found)
                  /\ updated_at' = [updated_at EXCEPT
                       !.structure = Stamped(@, structureTable, structureTable', now)]
                  /\ UNCHANGED analysisTable
  /\ UNCHANGED << unitVars, now, route, pc, requestVars, analyzeVars, planVars, genVars, dirs,
                  faults, stageLog, result >>

RaceNext ==
  \/ RaceQuery
  \/ RaceCommit

RaceSpec == StoreInit /\ [][RaceNext]_vars

(***************************************************************************)
(* The /zip and /github endpoints (routes/migration_routes.py) and the     *)
(* cleanup they perform (utils/cleanup_utils.py).  route.fs is the set of  *)
(* paths that exist; a path that is None in the code is "" here.           *)
(* migrate_project is the service method modelled above, taken here by its *)
(* outcome: it returns, or it raises.                                      *)
(***************************************************************************)
UPLOAD_DIR == "uploads"
OUTPUT_DIR == "output"

OsPathJoin(base_dir, name) == base_dir \o "/" \o name

\* create_zip_file: zip_path
ZipPath(pid) == OsPathJoin(OUTPUT_DIR, pid \o "_migrated.zip")

\* tempfile.NamedTemporaryFile(delete=False) and tempfile.TemporaryDirectory()
TempFile(pid) == OsPathJoin("tmp", pid \o ".upload")
TempDir(pid) == OsPathJoin("tmp", pid \o ".clone")

\* what a request leaves on disk
RequestPaths(pid) ==
  { OsPathJoin(UPLOAD_DIR, pid), OsPathJoin(OUTPUT_DIR, pid), ZipPath(pid),
    TempFile(pid), TempDir(pid) }

\* failing: the paths whose removal does not succeed
cleanup_directory(fs, base_dir, dir_id, failing) ==
  LET dir_path == OsPathJoin(base_dir, dir_id)
  IN  IF dir_id # "" /\ dir_path \in fs /\ dir_path \notin failing
      THEN fs \ { dir_path }
      ELSE fs

cleanup_file(fs, file_path, failing) ==
  IF file_path # "" /\ file_path \in fs /\ file_path \notin failing
  THEN fs \ { file_path }
  ELSE fs

perform_full_cleanup(fs, pid, zip_path, temp_path, failing) ==
  LET uploads == cleanup_directory(fs, UPLOAD_DIR, pid, failing)
      outputs == cleanup_directory(uploads, OUTPUT_DIR, pid, failing)
      zip     == IF zip_path # "" THEN cleanup_file(outputs, zip_path, failing)
                                  ELSE outputs
  IN  IF temp_path # "" THEN cleanup_file(zip, temp_path, failing) ELSE zip

\* an exception leaves the try block; the with block of /github removes temp_dir
Raised(r, error, fs) ==
  [ r EXCEPT !.pc = "except", !.error = error,
             !.fs = IF r.endpoint = "github" THEN fs \ { TempDir(r.project_id) }
                                             ELSE fs ]

RouteRest ==
  << unitVars, now, sessions, pc, requestVars, storeVars, analyzeVars, planVars,
     genVars, dirs, faults, stageLog, result >>

\* POST /zip or POST /github: generate_project_id()
RouteRequest ==
  /\ route.pc = "idle"
  /\ \E endpoint \in { "zip", "github" }, pid \in ProjectIds :
       route' = [ route EXCEPT !.endpoint = endpoint, !.project_id = pid,
                               !.pc = "receive" ]
  /\ UNCHANGED RouteRest

\* /zip: the upload is written to a temporary file;
\* /github: the repository is cloned into a temporary directory
RouteReceive ==
  /\ route.pc = "receive"
  /\ LET pid == route.project_id
     IN  IF route.endpoint = "zip"
         THEN \/ route' = [ route EXCEPT !.temp_path = TempFile(pid),
                                         !.fs = @ \cup { TempFile(pid) },
                                         !.pc = "save" ]
              \/ route' = Raised([ route EXCEPT !.temp_path = TempFile(pid) ],
                                 "Exception", route.fs \cup { TempFile(pid) })
              \/ route' = Raised(route, "Exception", route.fs)
         ELSE \/ route' = [ route EXCEPT !.fs = @ \cup { TempDir(pid) },
                                         !.pc = "save" ]
              \/ route' = Raised(route, "GitCommandError", route.fs \cup { TempDir(pid) })
  /\ UNCHANGED RouteRest

\* /zip: makedirs(project_dir), extractall; /github: save_upload_to_output
RouteSaveUpload ==
  /\ route.pc = "save"
  /\ LET project_dir == OsPathJoin(UPLOAD_DIR, route.project_id)
     IN  \/ route' = [ route EXCEPT !.fs = @ \cup { project_dir }, !.pc = "migrate" ]
         \/ /\ route.endpoint = "zip"
            /\ route' = Raised(route, "BadZipFile", route.fs \cup { project_dir })
         \/ route' = Raised(route, "Exception", route.fs \cup { project_dir })
  /\ UNCHANGED RouteRest

\* await AnalysisService.migrate_project(project_dir, project_id)
RouteMigrate ==
  /\ route.pc = "migrate"
  /\ LET output_dir == OsPathJoin(OUTPUT_DIR, route.project_id)
     IN  \/ route' = [ route EXCEPT !.fs = @ \cup { output_dir }, !.pc = "zip" ]
         \/ \E made \in SUBSET { output_dir } :
              route' = Raised(route, "Exception", route.fs \cup made)
  /\ UNCHANGED RouteRest

\* zip_path = create_zip_file(result["output_dir"], project_id): the archive
\* is opened for writing, then the files are added to it
RouteCreateZip ==
  /\ route.pc = "zip"
  /\ LET archive == ZipPath(route.project_id)
     IN  \/ route' = [ route EXCEPT !.fs = @ \cup { archive }, !.zip_path = archive,
                                    !.pc = "respond" ]
         \/ \E made \in SUBSET { archive } :
              route' = Raised(route, "Exception", route.fs \cup made)
  /\ UNCHANGED RouteRest

\* FileResponse(zip_path), background_tasks.add_task(perform_full_cleanup, ...),
\* return response
RouteRespond ==
  /\ route.pc = "respond"
  /\ LET task == [ project_id |-> route.project_id, zip_path |-> route.zip_path,
                   temp_path |-> IF route.endpoint = "zip" THEN route.temp_path
                                                           ELSE "" ]
     IN  route' = [ route EXCEPT
                      !.background = Append(@, task),
                      !.response = "file",
                      !.fs = IF route.endpoint = "github"
                             THEN @ \ { TempDir(route.project_id) } ELSE @,
                      !.pc = "returned" ]
  /\ UNCHANGED RouteRest

\* the response is sent to the client
RouteSend ==
  /\ route.pc = "returned"
  /\ route' = [ route EXCEPT !.sent = TRUE, !.pc = "sent" ]
  /\ UNCHANGED RouteRest

\* the background task runs once the response has been sent
RouteBackground ==
  /\ route.pc = "sent"
  /\ route.background # << >>
  /\ \E failing \in SUBSET (route.fs \cap RequestPaths(route.project_id)) :
       LET task == Head(route.background)
       IN  route' = [ route EXCEPT
                        !.fs = perform_full_cleanup(@, task.project_id, task.zip_path,
                                                    task.temp_path, failing),
                        !.background = Tail(@),
                        !.cleanup_ran = TRUE,
                        !.failing = failing,
                        !.pc = "cleaned" ]
  /\ UNCHANGED RouteRest

\* the except clauses: await perform_full_cleanup(...), raise HTTPException
RouteExcept ==
  /\ route.pc = "except"
  /\ \E failing \in SUBSET (route.fs \cap RequestPaths(route.project_id)) :
       route' = [ route EXCEPT
                    !.fs = perform_full_cleanup(@, route.project_id, route.zip_path,
                                                IF route.endpoint = "zip"
                                                THEN route.temp_path ELSE "",
                                                failing),
                    !.cleanup_ran = TRUE,
                    !.failing = failing,
                    !.response = IF route.error \in { "BadZipFile", "GitCommandError" }
                                 THEN "http_400" ELSE "http_500",
                    !.pc = "failed" ]
  /\ UNCHANGED RouteRest

RouteNext ==
  \/ RouteRequest
  \/ RouteReceive
  \/ RouteSaveUpload
  \/ RouteMigrate
  \/ RouteCreateZip
  \/ RouteRespond
  \/ RouteSend
  \/ RouteBackground
  \/ RouteExcept

RouteSpec == StoreInit /\ [][RouteNext]_vars

(***************************************************************************)
(* Properties.                                                             *)
(***************************************************************************)
LastStage == IF stageLog = <<>> THEN <<"none", "none">> ELSE stageLog[Len(stageLog)]

StageNo(stage) ==
  CASE stage = "analyze" -> 1
    [] stage = "persist_analysis" -> 2
    [] stage = "plan" -> 3
    [] stage = "persist_structure" -> 4
    [] stage = "generate" -> 5

\* the stage the service method is in, read off its position
PcMatchesLog ==
  /\ pc \in {"analyze_deps", "analyze_describe"} => LastStage = <<"analyze", "start">>
  /\ pc = "save_analysis" => LastStage = <<"analyze", "ok">>
  /\ pc = "plan_init" => LastStage = <<"persist_analysis", "ok">>
  /\ pc \in {"plan_components", "plan_services", "plan_finish"}
       => LastStage = <<"plan", "start">>
  /\ pc = "save_structure" => LastStage = <<"plan", "ok">>
  /\ pc = "gen_start" => LastStage = <<"persist_structure", "ok">>
  /\ pc = "gen_walk" => LastStage = <<"generate", "start">>
  /\ pc = "returned" => LastStage = <<"generate", "ok">>
  /\ pc = "raised" => LastStage[2] = "fail"

\* C1: in migrate_project the stages analyze, persist analysis, plan,
\* persist structure, generate run in this order; a stage starts only right
\* after the stage before it ended successfully, and nothing starts after a
\* stage that failed.
C1_StagesInOrder ==
  op = "migrate_project" =>
    /\ PcMatchesLog
    /\ \A i \in DOMAIN stageLog :
         LET stage == stageLog[i][1]
             ev == stageLog[i][2]
         IN /\ ev = "start" =>
                 IF StageNo(stage) = 1 THEN i = 1
                 ELSE /\ i > 1
                      /\ stageLog[i - 1][2] = "ok"
                      /\ StageNo(stageLog[i - 1][1]) = StageNo(stage) - 1
            /\ ev \in {"ok", "fail"} => i > 1 /\ stageLog[i - 1] = <<stage, "start">>
            /\ ev = "fail" => i = Len(stageLog)

C1_Witness ==
  /\ op = "migrate_project"
  /\ result = "success"
  /\ Len(stageLog) = 10

\* C2 (as claimed): when one file's generation fails, every other file of
\* the structure is still generated and written.
C2_SiblingsStillWritten ==
  (pc = "raised" /\ LastStage = <<"generate", "fail">>) =>
    \A i \in DOMAIN walk : i # g_idx => walk[i] \in SeqRange(written)

\* analyze_project raised in its dependency pass, before the description
\* loop
DependencyPassFailed ==
  /\ pc = "raised"
  /\ LastStage = <<"analyze", "fail">>
  /\ described = <<>>
  /\ file_info_results # <<>>

\* C3: the description loop of analyze_project issues the inference call of
\* every record, in order, whichever calls raise; the record of a raising
\* call carries the error text and every other record its own description.
C3_DescriptionFailureIsolated ==
  op # "migrate_from_target" =>
    /\ Len(described) = d_idx - 1
    /\ Len(described) <= Len(file_info_results)
    /\ \A i \in DOMAIN described :
         /\ described[i][1] = file_info_results[i].relative_path
         /\ described[i][2] = "raise" =>
              file_info_results[i].description = DescriptionError
         /\ described[i][2] = "ok" =>
              file_info_results[i].description
                \in {GenerateFileDescription("ok", r) : r \in DescriptionReplies}
    /\ (/\ pc \notin {"start", "analyze_extract", "analyze_deps", "analyze_describe"}
        /\ ~ DependencyPassFailed)
         => Len(described) = Len(file_info_results)

C3_Witness ==
  /\ pc = "save_analysis"
  /\ Len(described) >= 3
  /\ described[1][2] = "ok"
  /\ described[2][2] = "raise"
  /\ described[3][2] = "ok"
  /\ file_info_results[2].description = DescriptionError

CountLog(request, mark) ==
  Cardinality({i \in DOMAIN plan_log : plan_log[i] = <<request, mark>>})

C5_NoAnalysisAborts ==
  (op = "migrate_from_target" /\ Matching(analysisTable, project_id) = {}) =>
    /\ pc \in {"start", "save_structure", "raised"}
    /\ Matching(structureTable, project_id) = {}
    /\ walk = <<>>
    /\ written = <<>>
    /\ \A i \in DOMAIN stageLog : stageLog[i][1] # "generate"

C5_Witness ==
  /\ op = "migrate_from_target"
  /\ Matching(analysisTable, project_id) = {}
  /\ target_in # EmptyStructure
  /\ faults = 0
  /\ pc = "raised"

\* C6 (as claimed): migrate_project raises only for a failure that is not
\* per-item; a failure of one file's generation never surfaces.
C6_PerItemFailureNotSurfaced ==
  (op = "migrate_project" /\ result = "raised") => LastStage # <<"generate", "fail">>

\* C7: when success is reported every file of the walk has been produced
\* and written and none is in progress.
C7_SuccessAfterWalk ==
  result = "success" =>
    /\ ~ g_content
    /\ Len(written) = Len(walk)
    /\ \A i \in DOMAIN walk : written[i] = walk[i]

C7_Witness ==
  /\ result = "success"
  /\ Len(walk) >= 4

KindRank(kind) ==
  CASE kind = "component" -> 1
    [] kind = "page" -> 2
    [] kind = "hook" -> 3
    [] kind = "service" -> 4
    [] kind = "context" -> 5
    [] kind = "routing" -> 6
    [] kind = "project" -> 7

C9_DirectoryExistsAtWrite ==
  (pc = "gen_walk" /\ g_content) => DirName(walk[g_idx].path) \in dirs

\* the resolution C10 describes: exact key, else the first key that
\* contains the candidate, else the first key with the candidate's file
\* name
FirstOf(analysis_data, hits) ==
  IF hits = {} THEN NoPath
  ELSE analysis_data[CHOOSE i \in hits : \A j \in hits : i <= j].relative_path

FirstContaining(candidate, analysis_data) ==
  FirstOf(analysis_data,
          {i \in DOMAIN analysis_data :
             Contains(analysis_data[i].relative_path, candidate)})

FirstSameName(candidate, analysis_data) ==
  FirstOf(analysis_data,
          {i \in DOMAIN analysis_data :
             BaseName(analysis_data[i].relative_path) = BaseName(candidate)})

ThreeTier(candidate, analysis_data) ==
  IF candidate \in Keys(analysis_data) THEN candidate
  ELSE IF FirstContaining(candidate, analysis_data) # NoPath
  THEN FirstContaining(candidate, analysis_data)
  ELSE FirstSameName(candidate, analysis_data)

RECURSIVE ThreeTierAll(_, _)
ThreeTierAll(source_files, analysis_data) ==
  IF source_files = <<>> THEN <<>>
  ELSE (IF ThreeTier(Head(source_files), analysis_data) # NoPath
        THEN <<ThreeTier(Head(source_files), analysis_data)>> ELSE <<>>)
       \o ThreeTierAll(Tail(source_files), analysis_data)

\* C10 (as claimed): the source contents of a file are those of the keys
\* the three-tier resolution finds for its candidates.
C10_ThreeTierResolution ==
  (pc = "gen_walk" /\ g_content) =>
    g_sources = ThreeTierAll(walk[g_idx].sourceFiles,
                             GetAnalysis(analysisTable, project_id))

\* the candidates of a source-file list that are keys of the analysis, in
\* list order
ExactMatches(source_files, analysis_data) ==
  SelectSeq(source_files, LAMBDA c : c \in Keys(analysis_data))

RECURSIVE TextLen(_)
TextLen(content) ==
  IF content = <<>> THEN 0 ELSE CharLen(Head(content)) + TextLen(Tail(content))

\* the snippet content is the first 500 characters of the file content
IsLeading500(snippet, content) ==
  IF TextLen(content) <= 500 THEN snippet = content
  ELSE /\ Len(snippet) <= Len(content)
       /\ snippet # <<>>
       /\ snippet[Len(snippet)].k = "cut"
       /\ \A i \in 1..(Len(snippet) - 1) : snippet[i] = content[i]
       /\ TextLen(SubSeq(content, 1, Len(snippet) - 1)) <= 500
       /\ TextLen(SubSeq(content, 1, Len(snippet))) > 500

C12_ExtractDependenciesDescribe ==
  op # "migrate_from_target" =>
    /\ pc = "analyze_deps" =>
         LET project_path == ProjectPath(project_id)
             all_files == GatherFiles(project_path, tree)
         IN /\ Len(file_info_results) = Len(all_files)
            /\ \A i \in DOMAIN all_files :
                 /\ file_info_results[i].relative_path
                      = RelativeTo(all_files[i], project_path)
                 /\ file_info_results[i].dependencies = {}
            /\ described = <<>>
    /\ (pc = "analyze_describe" /\ described # <<>>) =>
         \A i \in DOMAIN file_info_results :
           file_info_results[i].dependencies
             = FindDependencies(file_info_results[i].content,
                                file_info_results[i].relative_path, file_info_results)

C12_Witness ==
  /\ pc = "analyze_describe"
  /\ Len(described) = 1
  /\ Len(file_info_results) >= 3
  /\ \E i \in DOMAIN file_info_results :
       /\ i > 1
       /\ file_info_results[i].dependencies # {}

\* C13 (as claimed): when the read of a file fails, the analysis still has
\* one record per gathered file, the record of the failing file has empty
\* content and an error annotation, and indexing is not aborted.
C13_ReadFailureIsolated ==
  (/\ op # "migrate_from_target"
   /\ pc \notin {"start", "analyze_extract"}
   /\ \E i \in DOMAIN file_info_results : file_info_results[i].error = ReadError) =>
    /\ Len(file_info_results) = Len(GatherFiles(ProjectPath(project_id), tree))
    /\ \A i \in DOMAIN file_info_results :
         file_info_results[i].error = ReadError => file_info_results[i].content = <<>>
    /\ ~ DependencyPassFailed

\* the identifiers of the $inject arrays and function parameter lists of a
\* file
InjectedTokens(content) ==
  UNION {SeqRange(content[i].params) :
           i \in {j \in DOMAIN content : content[j].k \in {"inject", "function"}}}

\* the file registers a service, factory, provider, directive or component
\* of this name
Registers(content, name) ==
  \E i \in DOMAIN content :
    /\ content[i].k \in {"service", "factory", "provider", "directive", "component"}
    /\ content[i].arg = name

\* C14 (as claimed): once analyze_project is past its dependency pass,
\* every file F has an edge to every other file that registers a token F
\* injects without the $ prefix, and no edge of this kind to itself.
C14_InjectedTokenEdges ==
  (/\ op # "migrate_from_target"
   /\ pc \notin {"start", "analyze_extract", "analyze_deps"}) =>
    \A f, g \in DOMAIN file_info_results :
      LET F == file_info_results[f]
          G == file_info_results[g]
      IN (\E t \in InjectedTokens(F.content) :
            /\ ~ StartsWith(t, <<"$">>)
            /\ Registers(G.content, t))
         => IF f = g THEN F.relative_path \notin F.dependencies
            ELSE G.relative_path \in F.dependencies

\* C15: _resolve_path returns a known file or nothing, whatever the
\* reference and the known files; every dependency _find_dependencies
\* gives is the relative_path of a file of the same analysis.
C15_ResolvesToKnownFile ==
  /\ u_fn = "_resolve_path" => u_out \in u_args.all_files \cup {NoPath}
  /\ u_fn = "_find_dependencies" =>
       /\ u_out \subseteq u_args.all_files
       /\ NoPath \notin u_out

C15_Witness ==
  /\ u_fn = "_resolve_path"
  /\ u_args.import_path = <<".", "/", "foo", ".", "html">>
  /\ u_args.all_files = { <<"x", "/", "y", ".", "js">>, <<"b", ".", "js">> }
  /\ u_out = NoPath

\* the referenced path after stripping query and fragment and resolving
\* ./ and ../ against the directory of the referencing file
LiteralPath(import_path, current_file) ==
  LET stripped == BeforeFirst(BeforeFirst(import_path, "?"), "#")
  IN IF StartsWith(stripped, <<".", "/">>) \/ StartsWith(stripped, <<".", ".", "/">>)
     THEN NormPath(PathJoin(DirName(current_file), stripped))
     ELSE stripped

\* the resolution C16 describes: URLs and root-relative paths are
\* rejected; else the literal path or, failing that, the literal path with
\* each listed extension appended
RetryingResolve(import_path, current_file, all_files) ==
  LET stripped == BeforeFirst(BeforeFirst(import_path, "?"), "#")
      literal == LiteralPath(import_path, current_file)
      hits == {i \in DOMAIN ResolveExts : (literal \o ResolveExts[i]) \in all_files}
  IN IF \/ StartsWith(stripped, <<"http:", "/", "/">>)
        \/ StartsWith(stripped, <<"https:", "/", "/">>)
        \/ StartsWith(stripped, <<"/">>)
     THEN NoPath
     ELSE IF literal \in all_files THEN literal
     ELSE IF hits # {}
          THEN literal \o ResolveExts[CHOOSE i \in hits : \A j \in hits : i <= j]
     ELSE NoPath

\* C16 (as claimed): a reference whose literal path is not a known file
\* resolves to the first known file among the literal path with .js,
\* .html, .css, .json appended.
C16_RetryWithExtensions ==
  (/\ u_fn = "_resolve_path"
   /\ LiteralPath(u_args.import_path, u_args.current_file) \notin u_args.all_files) =>
    u_out = RetryingResolve(u_args.import_path, u_args.current_file, u_args.all_files)

\* C17: a relative reference resolves to what its normalized path resolves
\* to; when the normalized path is a known .js, .html, .css or .json file
\* that file is the result.
C17_PathNormalizing ==
  u_fn = "_resolve_path" =>
    LET import_path == u_args.import_path
        normalized == NormPath(PathJoin(DirName(u_args.current_file), import_path))
    IN (/\ StartsWith(import_path, <<".", "/">>) \/ StartsWith(import_path, <<".", ".", "/">>)
        /\ ~ StartsWith(normalized, <<".", ".">>)) =>
         /\ u_out = ResolvePath(normalized, u_args.current_file, u_args.all_files)
         /\ (/\ normalized \in u_args.all_files
             /\ \E i \in DOMAIN ResolveExts : EndsWith(normalized, ResolveExts[i]))
              => u_out = normalized

C17_Witness ==
  /\ u_fn = "_resolve_path"
  /\ u_args.import_path = <<".", "/", "a", "/", ".", ".", "/", "b", ".", "js">>
  /\ u_args.current_file = <<"x", "/", "y", ".", "js">>
  /\ u_out = <<"x", "/", "b", ".", "js">>

\* the directory names _gather_files skips
DenyNames == SeqRange(DenyParts)

\* C18 (as claimed): a file is gathered exactly when its extension is
\* allowed and no directory on its path below the root has a deny-listed
\* name.
C18_GatherBySegments ==
  u_fn = "_gather_files" =>
    \A i \in DOMAIN u_args.tree :
      LET rel == u_args.tree[i]
          segments == SplitSlash(rel)
      IN (PathJoin(u_args.project_path, rel) \in SeqRange(u_out))
           <=> (/\ Suffix(rel) \in file_extensions
                /\ \A j \in 1..(Len(segments) - 1) : segments[j] \notin DenyNames)

CountRequests(request) ==
  Cardinality({i \in DOMAIN plan_log : plan_log[i][1] = request})

\* the records of .js files whose description or path holds service,
\* factory or provider
ServiceRecords(analysis_data) ==
  {i \in DOMAIN analysis_data :
     /\ EndsWith(analysis_data[i].relative_path, <<".", "js">>)
     /\ \E word \in {"service", "factory", "provider"} :
          \/ Contains(Lower(analysis_data[i].description), <<word>>)
          \/ Contains(Lower(analysis_data[i].relative_path), <<word>>)}

RECURSIVE FileEntriesOf(_)
FileEntriesOf(structure) ==
  IF structure = <<>> THEN <<>>
  ELSE LET node == Head(structure).node
       IN (IF IsFileEntry(node) THEN << Head(structure) >>
           ELSE FileEntriesOf(node.children))
          \o FileEntriesOf(Tail(structure))

\* the directory entries of a structure with their children left out
RECURSIVE DirectoriesOf(_)
DirectoriesOf(structure) ==
  IF structure = <<>> THEN <<>>
  ELSE LET node == Head(structure).node
       IN (IF IsFileEntry(node) THEN <<>>
           ELSE << StructEntry(Head(structure).key, [node EXCEPT !.children = <<>>]) >>
                \o DirectoriesOf(node.children))
          \o DirectoriesOf(Tail(structure))

LastSegment(key) == LET segs == SplitSlash(key) IN segs[Len(segs)]

\* what the pass owes one file entry: `given` as the reply held it,
\* `made` as the pass left it
Repaired(key, given, made) ==
  /\ \A f \in {"description", "migration_suggestions"} :
       /\ made[f].kind = "text"
       /\ given[f].kind = "absent" => made[f].v = << <<"Default", f, "for">> \o key >>
       /\ given[f].kind # "absent" => made[f] = given[f]
  /\ \A f \in {"dependencies", "source_files"} :
       /\ made[f].kind = "list"
       /\ given[f].kind # "list" => made[f].v = <<>>
       /\ given[f].kind = "list" => made[f] = given[f]
  /\ made.file_name = [kind |-> "text", v |-> << LastSegment(key) >>]
  /\ made.relative_path.kind = "text"
  /\ made.file_type.kind = "text"
  /\ made.file_type.v[1] # <<>> /\ Head(made.file_type.v[1]) # "."
  /\ EndsWith(given.file_type.v[1], made.file_type.v[1])

\* C20: after the validation pass every file entry carries all required
\* fields: a missing description or migration_suggestions is the
\* placeholder "Default <field> for <key>", dependencies and source_files
\* are lists (the empty list when the reply held none or a non-list),
\* file_name is the last segment of the entry's key and file_type has no
\* leading separator; the pass keeps every file entry, under its key and
\* in its place, and leaves the directory entries as they were.
C20_ValidatedEntriesComplete ==
  u_fn = "_validate_structure" =>
    LET given == FileEntriesOf(u_args.structure)
        made == FileEntriesOf(u_out)
    IN /\ Len(made) = Len(given)
       /\ \A i \in DOMAIN given :
            /\ made[i].key = given[i].key
            /\ Repaired(given[i].key, given[i].node, made[i].node)
       /\ DirectoriesOf(u_out) = DirectoriesOf(u_args.structure)

\* a reply whose file entry has no description and a string for its
\* dependencies went through the pass
C20_Witness ==
  /\ u_fn = "_validate_structure"
  /\ \E i \in DOMAIN FileEntriesOf(u_args.structure) :
       LET given == FileEntriesOf(u_args.structure)[i]
           made == FileEntriesOf(u_out)[i]
       IN /\ given.node.description.kind = "absent"
          /\ given.node.dependencies.kind = "text"
          /\ given.node.file_type.v[1] = <<".", "jsx">>
          /\ Len(SplitSlash(given.key)) = 1
          /\ made.node.dependencies = [kind |-> "list", v |-> <<>>]
          /\ made.node.description.v[1] =
               <<"Default", "description", "for", "App", ".", "jsx">>
          /\ made.node.file_type.v[1] = <<"jsx">>

\* the nodes of a structure: <<path from the root, "file" or "directory">>
RECURSIVE NodesOf(_, _)
NodesOf(structure, prefix) ==
  IF structure = <<>> THEN {}
  ELSE LET here == Append(prefix, Head(structure).key)
           node == Head(structure).node
       IN (IF IsFileEntry(node) THEN { <<here, "file">> }
           ELSE { <<here, "directory">> } \cup NodesOf(node.children, here))
          \cup NodesOf(Tail(structure), prefix)

\* C21: the validation pass never drops a node and is idempotent: the
\* validated structure has the same file and directory nodes as the reply,
\* and validating it once more returns it unchanged.
C21_ValidationKeepsNodesIdempotent ==
  u_fn = "_validate_structure" =>
    /\ NodesOf(u_out, <<>>) = NodesOf(u_args.structure, <<>>)
    /\ ValidateStructure(u_out) = u_out

\* a reply the pass had to change, with a directory below a directory
C21_Witness ==
  /\ u_fn = "_validate_structure"
  /\ u_out # u_args.structure
  /\ Cardinality(NodesOf(u_out, <<>>)) = 4
  /\ \E n \in NodesOf(u_args.structure, <<>>) : n[2] = "directory" /\ Len(n[1]) = 2

HasKey(value, k) == \E i \in DOMAIN value.items : value.items[i].key = k

\* the dictionaries of a structure outside its file entries, with their
\* paths, a file entry being a dictionary with file_type
RECURSIVE DictsByFileType(_, _)
DictsByFileType(node, prefix) ==
  IF node = <<>> THEN {}
  ELSE LET here == Append(prefix, Head(node).key)
           value == Head(node).val
       IN (IF value.kind # "dict" THEN {}
           ELSE IF HasKey(value, <<"file_type">>) THEN { <<here, value>> }
           ELSE { <<here, value>> } \cup DictsByFileType(value.items, here))
          \cup DictsByFileType(Tail(node), prefix)

\* the same, a file entry being what clean_node takes for one
RECURSIVE DictsByMetadata(_, _)
DictsByMetadata(node, prefix) ==
  IF node = <<>> THEN {}
  ELSE LET here == Append(prefix, Head(node).key)
           value == Head(node).val
       IN (IF value.kind # "dict" THEN {}
           ELSE IF HasFileMetadata(value) THEN { <<here, value>> }
           ELSE { <<here, value>> } \cup DictsByMetadata(value.items, here))
          \cup DictsByMetadata(Tail(node), prefix)

\* C22: a dictionary-shaped node is treated as a file entry iff it contains
\* file_type; every dictionary-shaped node without file_type is treated as
\* a directory and gone through, whatever other keys it has (so it is in
\* the result, at its path, as a directory).
C22_FileEntryIffFileType ==
  u_fn = "clean_migration_data" =>
    \A d \in DictsByFileType(u_args.data, <<>>) :
      /\ HasFileMetadata(d[2]) <=> HasKey(d[2], <<"file_type">>)
      /\ ~ HasKey(d[2], <<"file_type">>) /\ d[1][Len(d[1])] # <<"migration_suggestions">>
           => \E o \in DictsByFileType(u_out, <<>>) :
                o[1] = d[1] /\ ~ HasKey(o[2], <<"file_type">>)

\* C26: clean_migration_data removes only metadata attached to folder
\* entries: every file entry of the input (a dictionary with file_name,
\* file_type or relative_path), at any depth and under any folder name, is
\* unchanged at the same path in the output, and no metadata value (string,
\* list or dictionary) is left on a folder entry.
C26_OnlyFolderMetadataRemoved ==
  u_fn = "clean_migration_data" =>
    /\ \A d \in DictsByMetadata(u_args.data, <<>>) :
         HasFileMetadata(d[2]) => d \in DictsByMetadata(u_out, <<>>)
    /\ \A d \in DictsByMetadata(u_out, <<>>) :
         ~ HasFileMetadata(d[2]) =>
           \A i \in DOMAIN d[2].items :
             /\ d[2].items[i].val.kind = "dict"
             /\ d[2].items[i].key # <<"migration_suggestions">>

\* C25: when migrate_project fails at a later stage, what the earlier
\* stages persisted is still in the store: get_analysis returns the
\* analysis of this run once it was saved, and get_target_structure the
\* planned structure once that was saved.
C25_EarlierArtifactsKept ==
  op = "migrate_project" /\ result = "raised" =>
    /\ <<"persist_analysis", "ok">> \in SeqRange(stageLog)
         => GetAnalysis(analysisTable, project_id) = file_info_results
    /\ <<"persist_structure", "ok">> \in SeqRange(stageLog)
         => GetTargetStructure(structureTable, project_id).structure_data
              = target_structure

\* migrate_project failed in the generation stage, after both saves
C25_Witness ==
  /\ op = "migrate_project" /\ result = "raised"
  /\ <<"generate", "fail">> \in SeqRange(stageLog)
  /\ <<"persist_structure", "ok">> \in SeqRange(stageLog)
  /\ GetAnalysis(analysisTable, project_id) = file_info_results
  /\ file_info_results # PriorInfos

C23_UpsertByProjectId ==
  [][ /\ \A p \in ProjectIds : Cardinality(Matching(analysisTable', p)) <= 1
      /\ u_fn' = "save_analysis" /\ ~ IsNone(u_out')
           => GetAnalysis(analysisTable', u_args'.project_id) = u_args'.data
      /\ \A p \in ProjectIds :
           GetAnalysis(analysisTable', p) # GetAnalysis(analysisTable, p) =>
             \/ /\ u_fn' = "save_analysis" /\ ~ IsNone(u_out')
                /\ u_args'.project_id = p
                /\ GetAnalysis(analysisTable', p) = u_args'.data
             \/ /\ u_fn' = "delete_project_data"
                /\ GetAnalysis(analysisTable', p) = <<>> ]_vars

\* a save replaced the stored analysis of one project at a later hour
\* while another project's analysis is stored
C23_Witness ==
  /\ u_fn = "save_analysis" /\ ~ IsNone(u_out)
  /\ Len(analysisTable) = 2
  /\ analysisTable[1].project_id = u_args.project_id
  /\ analysisTable[1].analysis_data = <<"analysis", "2">>
  /\ u_out.id = analysisTable[1].id
  /\ analysisTable[2].project_id # u_args.project_id

\* C29: a target structure is stored for a project_id only if an analysis
\* is stored for the same project_id, over any sequence of save_analysis,
\* save_target_structure, delete_project_data and cleanup_old_records.
C29_StructureHasAnalysis ==
  pc = "store" =>
    \A i \in DOMAIN structureTable :
      ~ AnalysisMissing(analysisTable, structureTable[i].project_id)

\* C24: under any interleaving of two concurrent save_analysis (or
\* save_target_structure) calls for the same project_id the outcome is
\* last-writer-wins: once both have committed the store holds a single
\* record for that project_id and a get returns the value written by the
\* call that committed last.
C24_LastWriterWins ==
  \A first \in DOMAIN sessions, last \in DOMAIN sessions :
    /\ sessions[first].pc = "committed" /\ sessions[last].pc = "committed"
    /\ sessions[first].order < sessions[last].order
    /\ sessions[first].fn = sessions[last].fn
    /\ sessions[first].project_id = sessions[last].project_id
    => IF sessions[last].fn = "save_analysis"
       THEN /\ Cardinality(Matching(analysisTable, sessions[last].project_id)) = 1
            /\ GetAnalysis(analysisTable, sessions[last].project_id) = sessions[last].data
       ELSE /\ Cardinality(Matching(structureTable, sessions[last].project_id)) = 1
            /\ GetTargetStructure(structureTable, sessions[last].project_id).structure_data
                 = sessions[last].data


(* C27: get_specialized_prompt selects the specialized prompt for every    *)
(* combination of file types that has an entry in its table, in whatever   *)
(* order the caller lists the types, and the generic prompt only for       *)
(* combinations without an entry.                                          *)
HasEntry(file_types) ==
  \E l \in UnitFileTypeLists : Join(l) \in prompts /\ SeqRange(l) = SeqRange(file_types)

C27_SpecializedInAnyOrder ==
  u_fn = "get_specialized_prompt" =>
    (u_out.prompt = "specialized" <=> HasEntry(u_args.file_types))


(* C28: for /zip and /github, the archive of a successful request exists   *)
(* until the response has been sent, perform_full_cleanup has run before   *)
(* an HTTP error is raised, and when the request is over its upload        *)
(* directory, output directory, archive and temporary file are gone,       *)
(* except those whose own removal failed.                                  *)
C28_CleanupFollowsOutcome ==
  /\ (route.response = "file" /\ ~route.sent) =>
        (route.zip_path \in route.fs /\ ~route.cleanup_ran)
  /\ route.response \in { "http_400", "http_500" } => route.cleanup_ran
  /\ route.pc \in { "cleaned", "failed" } =>
        (route.fs \cap RequestPaths(route.project_id)) \subseteq route.failing

====
